---- MODULE Spec2Model ----
(***************************************************************************)
(* A model of the graph mergers of the dictionary-merger package.          *)
(*                                                                         *)
(*   GraphMerger.merge_graphs        dict_merger_optimized_v3.py           *)
(*                                                                         *)
(* A graph is a record                                                     *)
(*   entities    : id -> [name, children, properties]                      *)
(*   eorder      : the insertion order of the entities dict                *)
(*   transitions : id -> [source, target, properties]                      *)
(*   torder      : the insertion order of the transitions dict             *)
(*   roots       : the roots list                                          *)
(* children and roots are sequences (Python lists); properties are         *)
(* functions from keys to values (Python dicts).  Ids, names and paths are *)
(* strings, and paths and generated ids are built by concatenation as in   *)
(* the code.                                                               *)
(***************************************************************************)
EXTENDS Integers, Sequences, FiniteSets, TLC

VARIABLES
    pc,                 \* position in GraphMerger.merge_graphs
    primary_graph,      \* first argument of merge_graphs
    secondary_graph,    \* second argument of merge_graphs
    primary_context,    \* self.primary_context
    secondary_context,  \* self.secondary_context
    merged,             \* the local `merged` of merge_graphs
    transition_map,     \* the local `transition_map` of merge_graphs
    idx,                \* position of the running for-loop
    gen_original,       \* generate_unique_id: original_id
    gen_existing,       \* generate_unique_id: existing_ids
    gen_result,         \* generate_unique_id: the value returned, None before
    dm_pc,              \* position in merge_graphs of dict_merger.py
    dm_graph1,          \* its first argument
    dm_graph2,          \* its second argument
    dm_merged,          \* the module-level `merged`
    dm_id_mappings,     \* the module-level `id_mappings`
    dm_existing_ids,    \* the module-level `existing_ids`
    dm_calls,           \* merge_graphs calls that have returned
    v2_pc,              \* position in LevelOptimizedMerger.merge_graphs
    v2_primary,         \* its argument primary_graph, as the object is now
    v2_secondary,       \* its argument secondary_graph, as the object is now
    v2_heap,            \* the properties dicts of the entities, by address
    v2_primary0,        \* primary_graph as it was when the call began
    v2_secondary0,      \* secondary_graph as it was when the call began
    v2_primary_caches,  \* primary_caches
    v2_secondary_caches, \* secondary_caches
    v2_merged,          \* merged
    v2_processed,       \* processed_entities
    v2_mappings,        \* entity_mappings
    v2_level,           \* level of the second pass
    v2_idx,             \* position in the secondary transitions
    comm_calls,         \* earlier GraphMerger.merge_graphs calls of the caller
    comm_first,         \* the graph the earlier call returned
    val_graph,          \* validate_graph: the argument, as the object is now
    val_outcome,        \* validate_graph: called, accepted or raised
    alt_merged,         \* _validate_merged_graph: the argument, as the object is now
    alt_applied,        \* _validate_merged_graph: applications so far
    alt_once,           \* the graph its first application left
    rr_pc,              \* position in GraphMerger.merge_graphs (runtime-reduced v3)
    rr_primary,         \* its primary_graph argument
    rr_secondary,       \* its secondary_graph argument
    rr_index,           \* self.entity_info, path_map, name_map, level_map
    rr_merged,          \* its local merged
    rr_mappings,        \* self.entity_mappings
    rr_idx,             \* entities of the secondary graph processed so far
    rr_match,           \* the last value _find_matching_entity returned
    bgc_pc,             \* position in GraphMerger.build_graph_context (v3), run step by step
    bgc_graph,          \* its graph argument
    bgc_context,        \* its context argument
    bgc_stack,          \* the process_entity calls under way, innermost last
    bgc_root,           \* roots of the graph passed to process_entity so far
    gd_pc,              \* position in merge_graph_dicts (dict_merger_v2.py)
    gd_primary,         \* its primary_graph argument
    gd_secondary,       \* its secondary_graph argument
    gd_merged,          \* its local merged
    gd_primary_paths,   \* its local primary_paths
    gd_secondary_paths, \* its local secondary_paths
    gd_processed,       \* its local processed_entities
    gd_idx              \* position in the secondary entities, then transitions

v3vars == <<pc, primary_graph, secondary_graph, primary_context,
            secondary_context, merged, transition_map, idx>>

genvars == <<gen_original, gen_existing, gen_result>>

dmvars == <<dm_pc, dm_graph1, dm_graph2, dm_merged, dm_id_mappings, dm_existing_ids,
            dm_calls>>

v2vars == <<v2_pc, v2_primary, v2_secondary, v2_heap, v2_primary0, v2_secondary0,
            v2_primary_caches, v2_secondary_caches, v2_merged, v2_processed,
            v2_mappings, v2_level, v2_idx>>

commvars == <<comm_calls, comm_first>>

valvars == <<val_graph, val_outcome>>

altvars == <<alt_merged, alt_applied, alt_once>>

rrvars == <<rr_pc, rr_primary, rr_secondary, rr_index, rr_merged, rr_mappings, rr_idx, rr_match>>

bgcvars == <<bgc_pc, bgc_graph, bgc_context, bgc_stack, bgc_root>>

gdvars == <<gd_pc, gd_primary, gd_secondary, gd_merged, gd_primary_paths, gd_secondary_paths, gd_processed, gd_idx>>

vars == <<v3vars, genvars, dmvars, v2vars, commvars, valvars, altvars, rrvars, bgcvars, gdvars>>

\* what the steps of one program leave alone: the state of the others
OutsideV3 == <<genvars, dmvars, v2vars, commvars, valvars, altvars, rrvars, bgcvars, gdvars>>
OutsideGen == <<v3vars, dmvars, v2vars, commvars, valvars, altvars, rrvars, bgcvars, gdvars>>
OutsideDM == <<v3vars, genvars, v2vars, commvars, valvars, altvars, rrvars, bgcvars, gdvars>>
OutsideV2 == <<v3vars, genvars, dmvars, commvars, valvars, altvars, rrvars, bgcvars, gdvars>>
OutsideComm == <<genvars, dmvars, v2vars, valvars, altvars, rrvars, bgcvars, gdvars>>
OutsideVal == <<v3vars, genvars, dmvars, v2vars, commvars, altvars, rrvars, bgcvars, gdvars>>
OutsideAlt == <<v3vars, genvars, dmvars, v2vars, commvars, valvars, rrvars, bgcvars, gdvars>>
OutsideRR == <<v3vars, genvars, dmvars, v2vars, commvars, valvars, altvars, bgcvars, gdvars>>
OutsideBGC == <<v3vars, genvars, dmvars, v2vars, commvars, valvars, altvars, rrvars, gdvars>>
OutsideGD == <<v3vars, genvars, dmvars, v2vars, commvars, valvars, altvars, rrvars, bgcvars>>

----------------------------------------------------------------------------
(* Python values *)

\* Python's None, kept apart from every id
None == "<None>"

\* the empty dict
EmptyFn == [x \in {} |-> x]

\* d[k] = v
Put(f, k, v) == (k :> v) @@ f

\* d.get(k, dflt)
Get(f, k, dflt) == IF k \in DOMAIN f THEN f[k] ELSE dflt

\* d.update(g): the entries of g win
Update(f, g) == g @@ f

\* set(list)
ToSet(s) == {s[i] : i \in DOMAIN s}

\* truth value of an Optional[str]
Truthy(x) == x # None /\ x # ""

\* the orders in which a dict over keys S can have been filled
Perms(S) == {s \in [1..Cardinality(S) -> S] : \A i, j \in DOMAIN s : s[i] = s[j] => i = j}

----------------------------------------------------------------------------
(* str.lower and str.strip on the names the inputs are drawn from *)

lower(s) ==
    CASE s = "X" -> "x"
      [] s = "Y" -> "y"
      [] s = " X" -> " x"
      [] s = "Engineering" -> "engineering"
      [] s = "Frontend" -> "frontend"
      [] s = "John" -> "john"
      [] s = "Sarah" -> "sarah"
      [] s = "None" -> "none"
      [] OTHER -> s

strip(s) ==
    CASE s = " x" -> "x"
      [] s = "y " -> "y"
      [] OTHER -> s

normalize_entity_name(entity) == strip(lower(entity.name))

----------------------------------------------------------------------------
(* GraphMerger.build_graph_context *)

EmptyContext ==
    [entity_paths |-> EmptyFn, path_order |-> <<>>, path_to_id |-> EmptyFn,
     children_map |-> EmptyFn, processed_entities |-> {},
     entity_mappings |-> EmptyFn, path_mappings |-> EmptyFn, raised |-> FALSE]

\* process_entity recurses once per child; on a children cycle it never
\* returns and Python raises RecursionError.  A call at a level that is not
\* below the number of entities is on a path that repeats an entity, so it
\* is on a cycle: `raised` records the exception.
RECURSIVE process_entity(_, _, _, _, _, _, _)
RECURSIVE process_children(_, _, _, _, _, _, _, _)
process_entity(graph, context, entity_id, parent_path, parent_id, level, root_id) ==
    IF context.raised THEN context
    ELSE IF entity_id \notin DOMAIN graph.entities THEN context
    ELSE IF level >= Cardinality(DOMAIN graph.entities)
         THEN [context EXCEPT !.raised = TRUE]
    ELSE LET entity == graph.entities[entity_id]
             name == normalize_entity_name(entity)
             full_path == IF parent_path # "" THEN parent_path \o "/" \o name ELSE name
             rid == IF Truthy(root_id) THEN root_id ELSE entity_id
             seen == entity_id \in DOMAIN context.entity_paths
             c1 == [context EXCEPT
                      !.entity_paths = Put(@, entity_id,
                          [entity_id |-> entity_id, name |-> name,
                           full_path |-> full_path, level |-> level,
                           parent_id |-> parent_id, root_id |-> rid]),
                      !.path_order = IF seen THEN @ ELSE Append(@, entity_id),
                      !.path_to_id = Put(@, full_path, entity_id),
                      !.children_map =
                          IF Truthy(parent_id)
                          THEN Put(@, parent_id, Get(@, parent_id, {}) \cup {entity_id})
                          ELSE @]
         IN process_children(graph, c1, entity.children, 1, full_path,
                             entity_id, level + 1, rid)

process_children(graph, context, children, i, full_path, entity_id, level, rid) ==
    IF i > Len(children) THEN context
    ELSE process_children(graph,
            IF children[i] \in DOMAIN graph.entities
            THEN process_entity(graph, context, children[i], full_path,
                                entity_id, level, rid)
            ELSE context,
            children, i + 1, full_path, entity_id, level, rid)

RECURSIVE process_roots(_, _, _)
process_roots(graph, context, i) ==
    IF i > Len(graph.roots) THEN context
    ELSE process_roots(graph,
            process_entity(graph, context, graph.roots[i], "", None, 0, None),
            i + 1)

build_graph_context(graph) == process_roots(graph, EmptyContext, 1)

----------------------------------------------------------------------------
(* GraphMerger.entities_match, merge_entity_properties, find_matching_entity *)

entities_match(primary_entity, secondary_entity) ==
    normalize_entity_name(primary_entity) = normalize_entity_name(secondary_entity)

\* a merge in which the primary's values win
merge_entity_properties_primary_wins(primary, secondary) ==
    [name |-> primary.name,
     properties |-> (primary.properties @@ secondary.properties),
     children |-> primary.children \cup {secondary.children[i] : i \in DOMAIN secondary.children}]

\* a merge that keeps only the secondary's children (an overwrite instead of
\* a union)
merge_entity_properties_overwrite(primary, secondary) ==
    [name |-> primary.name,
     properties |-> (secondary.properties @@ primary.properties),
     children |-> {secondary.children[i] : i \in DOMAIN secondary.children}]

\* `primary` is an entity of the result (children held as a set: the result
\* only ever reads them through set(...)), `secondary` an input entity
merge_entity_properties(primary, secondary) ==
    [name |-> primary.name,
     properties |-> Update(primary.properties, secondary.properties),
     children |-> primary.children \cup ToSet(secondary.children)]

\* the first key, in insertion order, of the primary entity_paths that
\* satisfies Test, or None
FirstPrimary(Test(_)) ==
    LET order == primary_context.path_order
        hits == {i \in DOMAIN order : Test(order[i])}
    IN IF hits = {} THEN None
       ELSE order[CHOOSE i \in hits : \A j \in hits : i <= j]

\* tier 1: the exact path
PathMatch(entity_path) ==
    Get(primary_context.path_to_id, entity_path.full_path, None)

\* tier 2: "parent path + name"
ParentMatch(entity_path, entity) ==
    LET parent_id == entity_path.parent_id
    IN IF Truthy(parent_id) /\ parent_id \in DOMAIN secondary_context.entity_paths
       THEN LET parent_path == secondary_context.entity_paths[parent_id]
                Test(primary_id) ==
                    /\ primary_context.entity_paths[primary_id].parent_id
                          = parent_path.parent_id
                    /\ entities_match(primary_graph.entities[primary_id], entity)
            IN FirstPrimary(Test)
       ELSE None

\* tier 3: "name under same root"
RootMatch(entity_path, entity) ==
    LET entity_name == normalize_entity_name(entity)
        root_id == entity_path.root_id
        Test(primary_id) ==
            /\ primary_context.entity_paths[primary_id].root_id = root_id
            /\ primary_context.entity_paths[primary_id].name = entity_name
    IN IF Truthy(root_id) THEN FirstPrimary(Test) ELSE None

\* an entity with no entry in the secondary entity_paths (not reachable from
\* a root) skips the first two tiers and has no root_id for the third
find_matching_entity(entity_id, entity) ==
    IF entity_id \notin DOMAIN secondary_context.entity_paths THEN None
    ELSE LET entity_path == secondary_context.entity_paths[entity_id]
         IN IF PathMatch(entity_path) # None THEN PathMatch(entity_path)
            ELSE IF ParentMatch(entity_path, entity) # None
                 THEN ParentMatch(entity_path, entity)
            ELSE RootMatch(entity_path, entity)

----------------------------------------------------------------------------
(* GraphMerger.merge_graphs, one action per phase and per loop iteration *)

\* copy.deepcopy of an input entity into the result
CopyEntity(entity) ==
    [name |-> entity.name, properties |-> entity.properties,
     children |-> ToSet(entity.children)]

EmptyMerged == [entities |-> EmptyFn, transitions |-> EmptyFn, roots |-> {}]

\* self.secondary_context.entity_mappings.get(id, id)
Mapped(id) == Get(secondary_context.entity_mappings, id, id)

\* lines 127-128: both contexts are rebuilt; a RecursionError leaves the call
BuildContexts ==
    /\ pc = "start"
    /\ LET p == build_graph_context(primary_graph)
           s == build_graph_context(secondary_graph)
       IN /\ primary_context' = p
          /\ secondary_context' = IF p.raised THEN secondary_context ELSE s
          /\ pc' = IF p.raised \/ s.raised THEN "raised" ELSE "add_primary"
    /\ UNCHANGED <<primary_graph, secondary_graph, merged, transition_map, idx>>
    /\ UNCHANGED OutsideV3

\* lines 166-169
AddPrimaryEntities ==
    /\ pc = "add_primary"
    /\ merged' = [merged EXCEPT !.entities =
                    [id \in DOMAIN primary_graph.entities |->
                        CopyEntity(primary_graph.entities[id])]]
    /\ primary_context' = [primary_context EXCEPT
                    !.processed_entities = DOMAIN primary_graph.entities]
    /\ pc' = "secondary"
    /\ idx' = 1
    /\ UNCHANGED <<primary_graph, secondary_graph, secondary_context, transition_map>>
    /\ UNCHANGED OutsideV3

\* lines 172-189, one iteration
ProcessSecondaryEntity ==
    /\ pc = "secondary"
    /\ idx <= Len(secondary_graph.eorder)
    /\ LET entity_id == secondary_graph.eorder[idx]
           entity == secondary_graph.entities[entity_id]
           matching_id == find_matching_entity(entity_id, entity)
       IN IF entity_id \in secondary_context.processed_entities
          THEN UNCHANGED <<merged, secondary_context>>
          ELSE IF Truthy(matching_id) /\ matching_id \in DOMAIN merged.entities
          THEN /\ merged' = [merged EXCEPT !.entities[matching_id] =
                     merge_entity_properties(@, entity)]
               /\ secondary_context' = [secondary_context EXCEPT
                     !.entity_mappings = Put(@, entity_id, matching_id),
                     !.processed_entities = @ \cup {entity_id}]
          ELSE /\ merged' = [merged EXCEPT !.entities =
                     Put(@, entity_id, CopyEntity(entity))]
               /\ secondary_context' = [secondary_context EXCEPT
                     !.processed_entities = @ \cup {entity_id}]
    /\ idx' = idx + 1
    /\ UNCHANGED <<pc, primary_graph, secondary_graph, primary_context, transition_map>>
    /\ UNCHANGED OutsideV3

\* lines 191-198
UpdateChildren ==
    /\ pc = "secondary"
    /\ idx > Len(secondary_graph.eorder)
    /\ merged' = [merged EXCEPT !.entities =
          [id \in DOMAIN merged.entities |->
              [merged.entities[id] EXCEPT !.children =
                  {Mapped(c) : c \in @} \cap DOMAIN merged.entities]]]
    /\ pc' = "roots"
    /\ UNCHANGED <<primary_graph, secondary_graph, primary_context,
                   secondary_context, transition_map, idx>>
    /\ UNCHANGED OutsideV3

\* lines 200-206
\* roots that take every secondary root under its own id
ProcessRoots_unmapped ==
    /\ pc = "roots"
    /\ merged' = [merged EXCEPT !.roots =
          ToSet(primary_graph.roots) \cup
          (ToSet(secondary_graph.roots) \cap DOMAIN merged.entities)]
    /\ pc' = "primary_transitions"
    /\ UNCHANGED <<primary_graph, secondary_graph, primary_context,
                   secondary_context, transition_map, idx>>
    /\ UNCHANGED OutsideV3

\* lines 200-206
ProcessRoots ==
    /\ pc = "roots"
    /\ merged' = [merged EXCEPT !.roots =
          ToSet(primary_graph.roots) \cup
          ({Mapped(r) : r \in ToSet(secondary_graph.roots)}
              \cap DOMAIN merged.entities)]
    /\ pc' = "primary_transitions"
    /\ UNCHANGED <<primary_graph, secondary_graph, primary_context,
                   secondary_context, transition_map, idx>>
    /\ UNCHANGED OutsideV3

\* str() of an id in an f-string
Str(x) == IF x = None THEN "None" ELSE x

\* lines 212-216
get_transition_signature(source, target) ==
    Str(Mapped(source)) \o "=>" \o Str(Mapped(target))

CopyTransition(trans_data) ==
    [source |-> trans_data.source, target |-> trans_data.target,
     properties |-> trans_data.properties]

\* lines 219-225 applied to the primary transitions from position i on
RECURSIVE primary_transitions(_, _)
primary_transitions(state, i) ==
    IF i > Len(primary_graph.torder) THEN state
    ELSE LET trans_id == primary_graph.torder[i]
             trans_data == primary_graph.transitions[trans_id]
             signature == get_transition_signature(trans_data.source, trans_data.target)
         IN primary_transitions(
                [transitions |-> Put(state.transitions, trans_id, CopyTransition(trans_data)),
                 transition_map |-> Put(state.transition_map, signature, trans_id)],
                i + 1)

\* lines 218-225
ProcessPrimaryTransitions ==
    /\ pc = "primary_transitions"
    /\ LET out == primary_transitions(
                    [transitions |-> merged.transitions, transition_map |-> EmptyFn], 1)
       IN /\ merged' = [merged EXCEPT !.transitions = out.transitions]
          /\ transition_map' = out.transition_map
    /\ pc' = "secondary_transitions"
    /\ idx' = 1
    /\ UNCHANGED <<primary_graph, secondary_graph, primary_context, secondary_context>>
    /\ UNCHANGED OutsideV3

\* lines 252-254: the first candidate is trans_id; every later one is
\* trans_id_<len(merged['transitions'])>, which the loop body does not change
new_transition_id(trans_id, taken) ==
    IF trans_id \notin taken THEN trans_id
    ELSE trans_id \o "_" \o ToString(Cardinality(taken))

\* lines 228-261, one iteration; a while loop whose candidate stays taken
\* never exits
ProcessSecondaryTransition ==
    /\ pc = "secondary_transitions"
    /\ idx <= Len(secondary_graph.torder)
    /\ LET trans_id == secondary_graph.torder[idx]
           trans_data == secondary_graph.transitions[trans_id]
           signature == get_transition_signature(trans_data.source, trans_data.target)
           mapped_source == Mapped(trans_data.source)
           mapped_target == Mapped(trans_data.target)
           taken == DOMAIN merged.transitions
           new_trans_id == new_transition_id(trans_id, taken)
       IN IF signature \in DOMAIN transition_map
          THEN /\ merged' = [merged EXCEPT
                     !.transitions[transition_map[signature]].properties =
                         Update(@, trans_data.properties)]
               /\ UNCHANGED transition_map
               /\ pc' = pc
          ELSE IF mapped_source \in DOMAIN merged.entities
                  /\ mapped_target \in DOMAIN merged.entities
          THEN IF new_trans_id \in taken
               THEN /\ pc' = "hang"
                    /\ UNCHANGED <<merged, transition_map>>
               ELSE /\ merged' = [merged EXCEPT !.transitions =
                          Put(@, new_trans_id,
                              [source |-> mapped_source, target |-> mapped_target,
                               properties |-> trans_data.properties])]
                    /\ transition_map' = Put(transition_map, signature, new_trans_id)
                    /\ pc' = pc
          ELSE /\ UNCHANGED <<merged, transition_map>>
               /\ pc' = pc
    /\ idx' = idx + 1
    /\ UNCHANGED <<primary_graph, secondary_graph, primary_context, secondary_context>>
    /\ UNCHANGED OutsideV3

\* line 263
Return ==
    /\ pc = "secondary_transitions"
    /\ idx > Len(secondary_graph.torder)
    /\ pc' = "done"
    /\ UNCHANGED <<primary_graph, secondary_graph, primary_context,
                   secondary_context, merged, transition_map, idx>>
    /\ UNCHANGED OutsideV3

NextV3 ==
    \/ BuildContexts
    \/ AddPrimaryEntities
    \/ ProcessSecondaryEntity
    \/ UpdateChildren
    \/ ProcessRoots
    \/ ProcessPrimaryTransitions
    \/ ProcessSecondaryTransition
    \/ Return

----------------------------------------------------------------------------
(* dict_merger.py: generate_unique_id *)

\* f"{original_id}_{counter}"
suffixed(original_id, counter) == original_id \o "_" \o ToString(counter)

\* the while loop of generate_unique_id, entered with the given counter
RECURSIVE first_free(_, _, _)
first_free(original_id, existing_ids, counter) ==
    IF suffixed(original_id, counter) \in existing_ids
    THEN first_free(original_id, existing_ids, counter + 1)
    ELSE suffixed(original_id, counter)

generate_unique_id_from_zero(original_id, existing_ids) ==
    IF original_id \notin existing_ids THEN original_id
    ELSE first_free(original_id, existing_ids, 0)

generate_unique_id(original_id, existing_ids) ==
    IF original_id \notin existing_ids THEN original_id
    ELSE first_free(original_id, existing_ids, 1)

\* no call of generate_unique_id is under way
IdleGen == gen_original = None /\ gen_existing = {} /\ gen_result = None

\* one call generate_unique_id(gen_original, gen_existing) returns
GenerateUniqueId ==
    /\ gen_original # None
    /\ gen_result = None
    /\ gen_result' = generate_unique_id(gen_original, gen_existing)
    /\ UNCHANGED <<gen_original, gen_existing, OutsideGen>>

NextGen == GenerateUniqueId

\* the largest suffix that is taken in an input
MaxSuffix == 3

GenOriginals == {"a", "a_1", "b"}

GenTaken == {"a", "b", "a_1_1"} \cup {suffixed("a", n) : n \in 1..MaxSuffix}

----------------------------------------------------------------------------
(* dict_merger.py: the module-level state, add_entity and merge_graphs *)

\* the module-level merged, id_mappings and existing_ids as one value
DMState(m, maps, ids) == [merged |-> m, id_mappings |-> maps, existing_ids |-> ids]

\* the module state when the module has been imported
DMFresh == DMState([entities |-> EmptyFn, transitions |-> EmptyFn, roots |-> <<>>],
                   EmptyFn, {})

\* id_mappings.get(id, id)
dm_mapped(id_mappings, id) == IF id \in DOMAIN id_mappings THEN id_mappings[id] ELSE id

add_entity(state, entity_id, entity_data) ==
    IF entity_id \in DOMAIN state.id_mappings THEN state
    ELSE LET new_id == generate_unique_id(entity_id, state.existing_ids)
             maps == Put(state.id_mappings, entity_id, new_id)
             new_entity_data ==
                 [entity_data EXCEPT !.children =
                     [i \in DOMAIN entity_data.children |->
                         dm_mapped(maps, entity_data.children[i])]]
         IN DMState([state.merged EXCEPT
                        !.entities = Put(state.merged.entities, new_id, new_entity_data)],
                    maps, state.existing_ids \cup {new_id})

\* the first pass over graph['entities'].items(), from position i on
RECURSIVE add_entities(_, _, _)
add_entities(state, graph, i) ==
    IF i > Len(graph.eorder) THEN state
    ELSE add_entities(add_entity(state, graph.eorder[i], graph.entities[graph.eorder[i]]),
                      graph, i + 1)

\* the loop over graph['roots'], from position i on
RECURSIVE add_roots(_, _, _)
add_roots(state, graph, i) ==
    IF i > Len(graph.roots) THEN state
    ELSE LET new_root_id == dm_mapped(state.id_mappings, graph.roots[i])
             roots == state.merged.roots
         IN add_roots([state EXCEPT !.merged.roots =
                          IF new_root_id \notin ToSet(roots)
                          THEN Append(roots, new_root_id) ELSE roots],
                      graph, i + 1)

\* the loop over graph['transitions'].items(), from position i on
RECURSIVE add_transitions(_, _, _)
add_transitions(state, graph, i) ==
    IF i > Len(graph.torder) THEN state
    ELSE LET trans_id == graph.torder[i]
             trans_data == graph.transitions[trans_id]
             new_trans_id == generate_unique_id(trans_id, DOMAIN state.merged.transitions)
             new_trans == [source |-> dm_mapped(state.id_mappings, trans_data.source),
                           target |-> dm_mapped(state.id_mappings, trans_data.target)]
         IN add_transitions([state EXCEPT !.merged.transitions =
                                Put(state.merged.transitions, new_trans_id, new_trans)],
                            graph, i + 1)

\* one iteration of `for graph in [graph1, graph2]`
dm_process_graph(state, graph) ==
    add_transitions(add_roots(add_entities(state, graph, 1), graph, 1), graph, 1)

\* merge_graphs is not running and the module state is fresh
IdleDM ==
    /\ dm_pc = "idle" /\ dm_graph1 = None /\ dm_graph2 = None
    /\ dm_calls = 0
    /\ dm_merged = DMFresh.merged
    /\ dm_id_mappings = DMFresh.id_mappings
    /\ dm_existing_ids = DMFresh.existing_ids

\* merge_graphs(graph1, graph2) is called on the fresh module state
StartDM(graph1, graph2) ==
    /\ dm_pc = "graph1" /\ dm_graph1 = graph1 /\ dm_graph2 = graph2
    /\ dm_calls = 0
    /\ dm_merged = DMFresh.merged
    /\ dm_id_mappings = DMFresh.id_mappings
    /\ dm_existing_ids = DMFresh.existing_ids

DMStore(state) ==
    /\ dm_merged' = state.merged
    /\ dm_id_mappings' = state.id_mappings
    /\ dm_existing_ids' = state.existing_ids

DMProcessGraph1 ==
    /\ dm_pc = "graph1"
    /\ DMStore(dm_process_graph(DMState(dm_merged, dm_id_mappings, dm_existing_ids),
                                dm_graph1))
    /\ dm_pc' = "graph2"
    /\ UNCHANGED <<dm_graph1, dm_graph2, dm_calls, OutsideDM>>

DMProcessGraph2 ==
    /\ dm_pc = "graph2"
    /\ DMStore(dm_process_graph(DMState(dm_merged, dm_id_mappings, dm_existing_ids),
                                dm_graph2))
    /\ dm_pc' = "return"
    /\ UNCHANGED <<dm_graph1, dm_graph2, dm_calls, OutsideDM>>

\* return merged: the caller holds the module-level dict itself
DMReturn ==
    /\ dm_pc = "return"
    /\ dm_pc' = "returned"
    /\ dm_calls' = dm_calls + 1
    /\ UNCHANGED <<dm_graph1, dm_graph2, dm_merged, dm_id_mappings, dm_existing_ids,
                   OutsideDM>>

NextDM ==
    \/ DMProcessGraph1
    \/ DMProcessGraph2
    \/ DMReturn

\* a graph without entities, transitions and roots
EmptyGraph ==
    [entities |-> EmptyFn, eorder |-> <<>>, transitions |-> EmptyFn, torder |-> <<>>,
     roots |-> <<>>]

\* the caller calls merge_graphs a second time, in the same process: with
\* the same arguments, with the arguments swapped, or with two empty graphs
DMCallAgain ==
    /\ dm_pc = "returned"
    /\ dm_calls = 1
    /\ \E args \in {<<dm_graph1, dm_graph2>>, <<dm_graph2, dm_graph1>>,
                     <<EmptyGraph, EmptyGraph>>} :
          /\ dm_graph1' = args[1]
          /\ dm_graph2' = args[2]
    /\ dm_pc' = "graph1"
    /\ UNCHANGED <<dm_merged, dm_id_mappings, dm_existing_ids, dm_calls, OutsideDM>>

NextDMCalls ==
    \/ NextDM
    \/ DMCallAgain

----------------------------------------------------------------------------
(* dict_merger_optimized_v2.py: LevelOptimizedMerger                        *)
(*                                                                          *)
(* An entity is a dict whose keys 'children' and 'properties' are optional. *)
(* A properties dict is an object that several entity dicts can hold: an    *)
(* entity's 'properties' is the address of the dict in v2_heap.  Children   *)
(* lists and transition dicts are never changed in place and are held by    *)
(* value.                                                                   *)

MAX_DEPTH == 6

\* the address of the properties dict of an entity of an argument
Address(tag, entity_id) == <<tag, entity_id>>

\* a graph with the properties dicts written out
Deref(graph, heap) ==
    [graph EXCEPT !.entities =
        [id \in DOMAIN graph.entities |->
            IF "properties" \in DOMAIN graph.entities[id]
            THEN [graph.entities[id] EXCEPT !.properties = heap[@]]
            ELSE graph.entities[id]]]

\* the argument graph as objects: every properties dict at its own address
Load(graph, tag) ==
    [graph EXCEPT !.entities =
        [id \in DOMAIN graph.entities |->
            IF "properties" \in DOMAIN graph.entities[id]
            THEN [graph.entities[id] EXCEPT !.properties = Address(tag, id)]
            ELSE graph.entities[id]]]

LoadHeap(graph, tag) ==
    [a \in {Address(tag, id) : id \in {x \in DOMAIN graph.entities :
                                          "properties" \in DOMAIN graph.entities[x]}} |->
        graph.entities[a[2]].properties]

\* validate_graph, lines 63-73, from position i of the entities dict on: a
\* missing 'children' or 'properties' key is set on the entity of the
\* argument; a missing 'name' raises
RECURSIVE validate_entities(_, _, _, _)
validate_entities(graph, heap, tag, i) ==
    IF i > Len(graph.eorder) THEN [graph |-> graph, heap |-> heap, raised |-> FALSE]
    ELSE LET entity_id == graph.eorder[i]
             entity == graph.entities[entity_id]
             with_children == IF "children" \notin DOMAIN entity
                              THEN ("children" :> <<>>) @@ entity ELSE entity
             with_properties == IF "properties" \notin DOMAIN entity
                                THEN ("properties" :> Address(tag, entity_id)) @@ with_children
                                ELSE with_children
             new_heap == IF "properties" \notin DOMAIN entity
                         THEN Put(heap, Address(tag, entity_id), EmptyFn) ELSE heap
         IN IF "name" \notin DOMAIN entity
            THEN [graph |-> graph, heap |-> heap, raised |-> TRUE]
            ELSE validate_entities([graph EXCEPT !.entities[entity_id] = with_properties],
                                   new_heap, tag, i + 1)

validate_graph(graph, heap, tag) == validate_entities(graph, heap, tag, 1)

get_entity_name(entity_id, entities) ==
    IF entity_id \notin DOMAIN entities THEN entity_id
    ELSE IF "name" \notin DOMAIN entities[entity_id] THEN entity_id
    ELSE entities[entity_id].name

\* a LevelCache(); name_order is the insertion order of name_paths
EmptyCache ==
    [entities |-> EmptyFn, name_paths |-> EmptyFn, name_order |-> <<>>,
     parents |-> EmptyFn, id_to_name |-> EmptyFn]

\* self.level_caches after the clear(); level_num is at index level_num + 1
EmptyCaches == [l \in 1..MAX_DEPTH |-> EmptyCache]

\* lines 145-149 for the children of entity_id from position j on; the write
\* to level_caches[MAX_DEPTH] raises IndexError, which ends the loop (151-153)
RECURSIVE index_children(_, _, _, _, _, _)
index_children(state, graph, level_num, entity_id, root, j) ==
    LET children == graph.entities[entity_id].children
    IN IF j > Len(children) THEN state
       ELSE LET child == children[j]
                appended == [state EXCEPT !.next_level =
                                Append(@, <<child, root,
                                            get_entity_name(child, graph.entities)>>)]
            IN IF child \notin DOMAIN graph.entities
               THEN index_children(state, graph, level_num, entity_id, root, j + 1)
               ELSE IF level_num + 1 >= MAX_DEPTH THEN appended
               ELSE index_children(
                        [appended EXCEPT !.caches[level_num + 2].parents =
                            Put(@, child, entity_id)],
                        graph, level_num, entity_id, root, j + 1)

\* lines 125-153 from position i of current_level on
RECURSIVE index_entities(_, _, _, _, _)
index_entities(state, graph, level_num, current_level, i) ==
    IF i > Len(current_level) THEN state
    ELSE LET entity_id == current_level[i][1]
             root == current_level[i][2]
             entity_name == current_level[i][3]
             level_cache == state.caches[level_num + 1]
             parent == Get(level_cache.parents, entity_id, None)
             path == IF Truthy(parent)
                     THEN Get(state.caches[level_num].name_paths, parent, "")
                              \o "/" \o entity_name
                     ELSE entity_name
             cached ==
                 [level_cache EXCEPT
                     !.entities = Put(@, root, Get(@, root, {}) \cup {entity_id}),
                     !.id_to_name = Put(@, entity_id, entity_name),
                     !.name_order = IF entity_id \in DOMAIN level_cache.name_paths
                                    THEN @ ELSE Append(@, entity_id),
                     !.name_paths = Put(@, entity_id, path)]
         IN index_entities(
                index_children([state EXCEPT !.caches[level_num + 1] = cached],
                               graph, level_num, entity_id, root, 1),
                graph, level_num, current_level, i + 1)

\* lines 118-155 from level_num on
RECURSIVE index_levels(_, _, _, _)
index_levels(caches, graph, level_num, current_level) ==
    IF level_num >= MAX_DEPTH \/ current_level = <<>> THEN caches
    ELSE LET state == index_entities([caches |-> caches, next_level |-> <<>>],
                                     graph, level_num, current_level, 1)
         IN index_levels(state.caches, graph, level_num + 1, state.next_level)

\* build_level_indices; root_order is the order in which set(graph['roots'])
\* is iterated
build_level_indices(graph, root_order) ==
    LET found == SelectSeq(root_order, LAMBDA root : root \in DOMAIN graph.entities)
        current_level == [i \in DOMAIN found |->
                             <<found[i], found[i], get_entity_name(found[i], graph.entities)>>]
    IN index_levels(EmptyCaches, graph, 0, current_level)

v2_first_match(name_paths, name_order, secondary_path) ==
    LET hits == SelectSeq(name_order, LAMBDA primary_id : name_paths[primary_id] = secondary_path)
    IN IF hits = <<>> THEN None ELSE hits[1]

\* copy.copy(entity): a new entity dict that holds the same properties dict;
\* the children of a result entity are held as a set
copy_copy(entity) == [entity EXCEPT !.children = ToSet(@)]

\* lines 209-260 for one entity of entities_at_level; state holds merged,
\* the heap, processed_entities and entity_mappings
v2_process_entity(state, level, entity_id) ==
    LET secondary_path == Get(v2_secondary_caches[level + 1].name_paths, entity_id, None)
        primary_cache == v2_primary_caches[level + 1]
        matching_id == v2_first_match(primary_cache.name_paths, primary_cache.name_order,
                                      secondary_path)
        secondary_entity == v2_secondary.entities[entity_id]
        mappings == Put(state.mappings, entity_id, matching_id)
    IN IF entity_id \in state.processed THEN state
       ELSE IF ~Truthy(secondary_path) THEN state
       ELSE IF Truthy(matching_id) /\ matching_id \in DOMAIN state.merged.entities
       THEN [state EXCEPT
                !.mappings = mappings,
                !.heap[state.merged.entities[matching_id].properties] =
                    Update(@, state.heap[secondary_entity.properties]),
                !.merged.entities[matching_id].children =
                    @ \cup {Get(mappings, c, c) : c \in ToSet(secondary_entity.children)},
                !.processed = @ \cup {entity_id}]
       ELSE [state EXCEPT
                !.merged.entities =
                    Put(@, entity_id,
                        [secondary_entity EXCEPT !.children =
                            {Get(state.mappings, c, c) : c \in ToSet(@)}]),
                !.merged.roots =
                    IF level = 0 /\ entity_id \in ToSet(v2_secondary.roots)
                    THEN Append(@, entity_id) ELSE @,
                !.processed = @ \cup {entity_id}]

RECURSIVE v2_process_entities(_, _, _, _)
v2_process_entities(state, level, order, i) ==
    IF i > Len(order) THEN state
    ELSE v2_process_entities(v2_process_entity(state, level, order[i]), level, order, i + 1)

\* the orders in which lines 205-208 can visit the entities of a level: the
\* secondary roots in list order, the set of each root in any order
RECURSIVE LevelOrders(_, _, _)
LevelOrders(cache, roots, i) ==
    IF i > Len(roots) THEN {<<>>}
    ELSE {first \o rest : first \in Perms(Get(cache.entities, roots[i], {})),
                          rest \in LevelOrders(cache, roots, i + 1)}

\* the candidate id of lines 284-286: trans_id, then trans_id_<len>, which
\* the loop body does not change
v2_new_id(trans_id, taken) ==
    IF trans_id \notin taken THEN trans_id
    ELSE trans_id \o "_" \o ToString(Cardinality(taken))

EmptyMergedV2 == [entities |-> EmptyFn, transitions |-> EmptyFn, roots |-> <<>>]

\* no LevelOptimizedMerger.merge_graphs call is under way
IdleV2 ==
    /\ v2_pc = "idle"
    /\ v2_primary = None /\ v2_secondary = None
    /\ v2_primary0 = None /\ v2_secondary0 = None
    /\ v2_heap = EmptyFn
    /\ v2_primary_caches = EmptyCaches /\ v2_secondary_caches = EmptyCaches
    /\ v2_merged = EmptyMergedV2
    /\ v2_processed = {} /\ v2_mappings = EmptyFn
    /\ v2_level = 0 /\ v2_idx = 0

\* LevelOptimizedMerger().merge_graphs(primary, secondary) is called;
\* v2_primary0 and v2_secondary0 keep the arguments as they are at the call
StartV2(primary, secondary) ==
    /\ v2_pc = "validate_primary"
    /\ v2_primary = Load(primary, "primary")
    /\ v2_secondary = Load(secondary, "secondary")
    /\ v2_heap = LoadHeap(primary, "primary") @@ LoadHeap(secondary, "secondary")
    /\ v2_primary0 = primary /\ v2_secondary0 = secondary
    /\ v2_primary_caches = EmptyCaches /\ v2_secondary_caches = EmptyCaches
    /\ v2_merged = EmptyMergedV2
    /\ v2_processed = {} /\ v2_mappings = EmptyFn
    /\ v2_level = 0 /\ v2_idx = 0

V2Others == UNCHANGED <<OutsideV2, v2_primary0, v2_secondary0>>

\* line 166
V2ValidatePrimary ==
    /\ v2_pc = "validate_primary"
    /\ LET r == validate_graph(v2_primary, v2_heap, "primary")
       IN /\ v2_primary' = r.graph
          /\ v2_heap' = r.heap
          /\ v2_pc' = IF r.raised THEN "raised" ELSE "validate_secondary"
    /\ UNCHANGED <<v2_secondary, v2_primary_caches, v2_secondary_caches, v2_merged,
                   v2_processed, v2_mappings, v2_level, v2_idx>>
    /\ V2Others

\* line 167
V2ValidateSecondary ==
    /\ v2_pc = "validate_secondary"
    /\ LET r == validate_graph(v2_secondary, v2_heap, "secondary")
       IN /\ v2_secondary' = r.graph
          /\ v2_heap' = r.heap
          /\ v2_pc' = IF r.raised THEN "raised" ELSE "index"
    /\ UNCHANGED <<v2_primary, v2_primary_caches, v2_secondary_caches, v2_merged,
                   v2_processed, v2_mappings, v2_level, v2_idx>>
    /\ V2Others

\* lines 171-175
V2BuildIndices ==
    /\ v2_pc = "index"
    /\ \E primary_order \in Perms(ToSet(v2_primary.roots)),
          secondary_order \in Perms(ToSet(v2_secondary.roots)) :
          /\ v2_primary_caches' = build_level_indices(v2_primary, primary_order)
          /\ v2_secondary_caches' = build_level_indices(v2_secondary, secondary_order)
    /\ v2_pc' = "primary"
    /\ UNCHANGED <<v2_primary, v2_secondary, v2_heap, v2_merged, v2_processed,
                   v2_mappings, v2_level, v2_idx>>
    /\ V2Others

\* lines 179-196
V2ProcessPrimary ==
    /\ v2_pc = "primary"
    /\ v2_merged' = [entities |-> [id \in DOMAIN v2_primary.entities |->
                                      copy_copy(v2_primary.entities[id])],
                     transitions |-> v2_primary.transitions,
                     roots |-> v2_primary.roots]
    /\ v2_processed' = DOMAIN v2_primary.entities
    /\ v2_mappings' = EmptyFn
    /\ v2_level' = 0
    /\ v2_pc' = "levels"
    /\ UNCHANGED <<v2_primary, v2_secondary, v2_heap, v2_primary_caches,
                   v2_secondary_caches, v2_idx>>
    /\ V2Others

\* lines 200-268, one level
V2ProcessLevel ==
    /\ v2_pc = "levels"
    /\ \E order \in LevelOrders(v2_secondary_caches[v2_level + 1], v2_secondary.roots, 1) :
          LET state == v2_process_entities(
                           [merged |-> v2_merged, heap |-> v2_heap,
                            processed |-> v2_processed, mappings |-> v2_mappings],
                           v2_level, order, 1)
          IN /\ v2_merged' = state.merged
             /\ v2_heap' = state.heap
             /\ v2_processed' = state.processed
             /\ v2_mappings' = state.mappings
    /\ v2_level' = v2_level + 1
    /\ v2_pc' = IF v2_level + 1 < MAX_DEPTH THEN "levels" ELSE "transitions"
    /\ v2_idx' = 1
    /\ UNCHANGED <<v2_primary, v2_secondary, v2_primary_caches, v2_secondary_caches>>
    /\ V2Others

\* lines 276-292, one secondary transition; existing_transitions (273-274)
\* is computed once, when merged['transitions'] is the primary's
V2ProcessTransition ==
    /\ v2_pc = "transitions"
    /\ v2_idx <= Len(v2_secondary.torder)
    /\ LET trans_id == v2_secondary.torder[v2_idx]
           trans_data == v2_secondary.transitions[trans_id]
           existing_transitions ==
               {<<v2_primary.transitions[t].source, v2_primary.transitions[t].target>> :
                   t \in DOMAIN v2_primary.transitions}
           source == Get(v2_mappings, trans_data.source, trans_data.source)
           target == Get(v2_mappings, trans_data.target, trans_data.target)
           taken == DOMAIN v2_merged.transitions
           new_id == v2_new_id(trans_id, taken)
       IN IF /\ source \in DOMAIN v2_merged.entities
             /\ target \in DOMAIN v2_merged.entities
             /\ <<source, target>> \notin existing_transitions
          THEN IF new_id \in taken
               THEN v2_pc' = "hang" /\ UNCHANGED v2_merged
               ELSE /\ v2_merged' = [v2_merged EXCEPT !.transitions =
                                        Put(@, new_id, [source |-> source, target |-> target,
                                                        properties |-> trans_data.properties])]
                    /\ v2_pc' = v2_pc
          ELSE UNCHANGED <<v2_merged, v2_pc>>
    /\ v2_idx' = v2_idx + 1
    /\ UNCHANGED <<v2_primary, v2_secondary, v2_heap, v2_primary_caches,
                   v2_secondary_caches, v2_processed, v2_mappings, v2_level>>
    /\ V2Others

\* line 298
V2Return ==
    /\ v2_pc = "transitions"
    /\ v2_idx > Len(v2_secondary.torder)
    /\ v2_pc' = "done"
    /\ UNCHANGED <<v2_primary, v2_secondary, v2_heap, v2_primary_caches,
                   v2_secondary_caches, v2_merged, v2_processed, v2_mappings,
                   v2_level, v2_idx>>
    /\ V2Others

NextV2 ==
    \/ V2ValidatePrimary
    \/ V2ValidateSecondary
    \/ V2BuildIndices
    \/ V2ProcessPrimary
    \/ V2ProcessLevel
    \/ V2ProcessTransition
    \/ V2Return

----------------------------------------------------------------------------
(* LevelOptimizedMerger.validate_graph on values of any type: a Python      *)
(* value is held with its type, and isinstance reads the type               *)

PyDict(items) == [kind |-> "dict", value |-> items]
PyList(items) == [kind |-> "list", value |-> items]
PyStr(chars) == [kind |-> "str", value |-> chars]

\* the entities dict with the insertion order of its keys
PyEntities(items, order) == [kind |-> "dict", value |-> items, order |-> order]

isinstance(v, kind) == v.kind = kind

\* lines 63-73 from position i of graph['entities'].items() on
RECURSIVE validate_any_entities(_, _)
validate_any_entities(entities, i) ==
    IF i > Len(entities.order) THEN [raised |-> FALSE, entities |-> entities]
    ELSE LET entity_id == entities.order[i]
             entity == entities.value[entity_id]
             with_children ==
                 IF "children" \notin DOMAIN entity.value
                 THEN [entity EXCEPT !.value = ("children" :> PyList(<<>>)) @@ @]
                 ELSE entity
             with_properties ==
                 IF "properties" \notin DOMAIN entity.value
                 THEN [with_children EXCEPT !.value = ("properties" :> PyDict(EmptyFn)) @@ @]
                 ELSE with_children
         IN IF ~isinstance(entity, "dict")
            THEN [raised |-> TRUE, entities |-> entities]
            ELSE IF "name" \notin DOMAIN entity.value
            THEN [raised |-> TRUE, entities |-> entities]
            ELSE IF ~isinstance(with_children.value.children, "list")
            THEN [raised |-> TRUE, entities |-> entities]
            ELSE validate_any_entities(
                     [entities EXCEPT !.value[entity_id] = with_properties], i + 1)

\* validate_graph, lines 51-79: the value the argument holds afterwards and
\* whether ValueError was raised
validate_any(graph) ==
    IF ~isinstance(graph, "dict") THEN [raised |-> TRUE, graph |-> graph]
    ELSE IF {"entities", "transitions", "roots"} \ DOMAIN graph.value # {}
    THEN [raised |-> TRUE, graph |-> graph]
    ELSE IF ~isinstance(graph.value.entities, "dict")
    THEN [raised |-> TRUE, graph |-> graph]
    ELSE LET r == validate_any_entities(graph.value.entities, 1)
             validated == [graph EXCEPT !.value.entities = r.entities]
         IN [raised |-> \/ r.raised
                        \/ ~isinstance(graph.value.transitions, "dict")
                        \/ ~isinstance(graph.value.roots, "list"),
             graph |-> validated]

\* no validate_graph call on its own is under way
IdleVal == val_outcome = "idle" /\ val_graph = None

\* validate_graph(val_graph, name) returns or raises
ValidateGraph ==
    /\ val_outcome = "called"
    /\ LET r == validate_any(val_graph)
       IN /\ val_graph' = r.graph
          /\ val_outcome' = IF r.raised THEN "raised" ELSE "accepted"
    /\ UNCHANGED OutsideVal

NextVal == ValidateGraph

----------------------------------------------------------------------------
(* alt_dict_merger.py: GraphMerger._validate_merged_graph *)

\* list.remove(x): the list without the first occurrence of x
list_remove(list, x) ==
    LET first == CHOOSE i \in DOMAIN list : list[i] = x /\ \A j \in 1..(i - 1) : list[j] # x
    IN [k \in 1..(Len(list) - 1) |-> IF k < first THEN list[k] ELSE list[k + 1]]

\* lines 228-231: `for child_id in children` reads position i of the list as
\* it is now, while the body removes from the same list
RECURSIVE remove_invalid_children(_, _, _)
remove_invalid_children(children, entities, i) ==
    IF i > Len(children) THEN children
    ELSE IF children[i] \notin DOMAIN entities
         THEN remove_invalid_children(list_remove(children, children[i]), entities, i + 1)
         ELSE remove_invalid_children(children, entities, i + 1)

_validate_merged_graph(graph) ==
    LET entities == graph.entities
        kept == {t \in DOMAIN graph.transitions :
                    /\ graph.transitions[t].source \in DOMAIN entities
                    /\ graph.transitions[t].target \in DOMAIN entities}
    IN [graph EXCEPT
           !.entities = [id \in DOMAIN entities |->
                            [entities[id] EXCEPT !.children =
                                remove_invalid_children(@, entities, 1)]],
           !.transitions = [t \in kept |-> graph.transitions[t]],
           !.roots = SelectSeq(@, LAMBDA root : root \in DOMAIN entities)]

\* no _validate_merged_graph call on its own is under way
IdleAlt == alt_applied = 0 /\ alt_merged = None /\ alt_once = None

\* self._validate_merged_graph(merged) on the graph as it is now; alt_once
\* keeps the graph the first application left
ValidateMergedGraph ==
    /\ alt_applied < 2
    /\ alt_applied' = alt_applied + 1
    /\ alt_merged' = _validate_merged_graph(alt_merged)
    /\ alt_once' = IF alt_applied = 0 THEN alt_merged' ELSE alt_once
    /\ UNCHANGED OutsideAlt

NextAlt == ValidateMergedGraph

----------------------------------------------------------------------------
(* GraphMerger of dict_merger_optimized_v3_runtime_reduced.py.  One index  *)
(* (entity_info, path_map, name_map, level_map, root_map) belongs to the   *)
(* merger; info_order is the insertion order of the entity_info dict.      *)

\* GraphMerger.__init__, and the index after _clear_state
EmptyIndex ==
    [entity_info |-> EmptyFn, info_order |-> <<>>, path_map |-> EmptyFn,
     name_map |-> EmptyFn, level_map |-> EmptyFn, root_map |-> EmptyFn]

EmptyMergedRR ==
    [entities |-> EmptyFn, eorder |-> <<>>, transitions |-> EmptyFn,
     torder |-> <<>>, roots |-> <<>>]

\* str(name).lower().strip()
_normalize_name(name) == strip(lower(Str(name)))

\* the first entity, in dict order, whose children hold entity_id
find_parent(graph, entity_id) ==
    LET holders == {i \in DOMAIN graph.eorder :
                        entity_id \in ToSet(graph.entities[graph.eorder[i]].children)}
    IN IF holders = {} THEN None
       ELSE graph.eorder[CHOOSE i \in holders : \A j \in holders : i <= j]

\* _build_entity_info, first pass, from the i-th entity of the graph on
RECURSIVE first_pass(_, _, _)
first_pass(graph, index, i) ==
    IF i > Len(graph.eorder) THEN index
    ELSE LET entity_id == graph.eorder[i]
             name == graph.entities[entity_id].name
             normalized_name == _normalize_name(name)
             info == [id |-> entity_id, name |-> name,
                      normalized_name |-> normalized_name,
                      level |-> 0, path |-> <<>>,
                      root_id |-> IF entity_id \in ToSet(graph.roots)
                                  THEN entity_id ELSE None,
                      parent_id |-> find_parent(graph, entity_id)]
         IN first_pass(graph,
                [index EXCEPT
                    !.entity_info = Put(@, entity_id, info),
                    !.info_order = IF entity_id \in ToSet(@) THEN @
                                   ELSE Append(@, entity_id),
                    !.name_map = Put(@, normalized_name,
                                     Get(@, normalized_name, {}) \cup {entity_id})],
                i + 1)

\* build_path: the names from the top parent down to the entity, and the
\* number of parents above it; an entity met twice ends the walk
RECURSIVE build_path(_, _, _)
build_path(entity_info, entity_id, visited) ==
    IF entity_id \in visited THEN [path |-> <<>>, level |-> 0]
    ELSE LET info == entity_info[entity_id]
         IN IF info.parent_id = None THEN [path |-> <<info.name>>, level |-> 0]
            ELSE LET above == build_path(entity_info, info.parent_id,
                                         visited \cup {entity_id})
                 IN [path |-> Append(above.path, info.name),
                     level |-> above.level + 1]

\* '/'.join(path) raises TypeError unless every item is a str
joinable(path) == \A i \in DOMAIN path : path[i] # None

\* '/'.join(path)
RECURSIVE join(_)
join(path) ==
    IF path = <<>> THEN ""
    ELSE IF Len(path) = 1 THEN path[1]
    ELSE path[1] \o "/" \o join(Tail(path))

\* _build_entity_info, second pass, from the i-th entry of entity_info on;
\* an exception leaves the index as far as it was filled
RECURSIVE second_pass(_, _)
second_pass(index, i) ==
    IF i > Len(index.info_order) THEN [index |-> index, raised |-> FALSE]
    ELSE LET entity_id == index.info_order[i]
             built == build_path(index.entity_info, entity_id, {})
             info == [index.entity_info[entity_id] EXCEPT
                          !.path = built.path, !.level = built.level]
             root_id == IF info.parent_id = None THEN entity_id
                        ELSE index.entity_info[info.parent_id].root_id
         IN IF ~joinable(built.path)
            THEN [index |-> [index EXCEPT !.entity_info = Put(@, entity_id, info)],
                  raised |-> TRUE]
            ELSE second_pass(
                    [index EXCEPT
                        !.entity_info =
                            Put(@, entity_id, [info EXCEPT !.root_id = root_id]),
                        !.path_map = Put(@, join(built.path), entity_id),
                        !.level_map = Put(@, built.level,
                                          Get(@, built.level, {}) \cup {entity_id}),
                        !.root_map = Put(@, root_id,
                                         Get(@, root_id, {}) \cup {entity_id})],
                    i + 1)

\* _build_entity_info: the secondary graph is indexed into the cleared index
_build_entity_info(graph, index, is_primary) ==
    second_pass(first_pass(graph, IF is_primary THEN index ELSE EmptyIndex, 1), 1)

\* name_map[normalized_name] & level_map[info.level]
potential_matches(index, entity_id, entity) ==
    IF entity_id \in DOMAIN index.entity_info
    THEN Get(index.name_map, _normalize_name(entity.name), {})
         \cap Get(index.level_map, index.entity_info[entity_id].level, {})
    ELSE {}

\* the name-and-level tier: the first candidate of the same root, else the
\* first candidate, in the order the set is iterated in
tie_break(info, entity_info, order) ==
    LET same_root == {i \in DOMAIN order :
                          entity_info[order[i]].root_id = info.root_id}
    IN IF Truthy(info.root_id) /\ same_root # {}
       THEN order[CHOOSE i \in same_root : \A j \in same_root : i <= j]
       ELSE order[1]

\* _find_matching_entity when potential_matches is iterated in this order
find_in_order(index, entity_id, entity, order) ==
    IF entity_id \notin DOMAIN index.entity_info THEN None
    ELSE LET info == index.entity_info[entity_id]
         IN IF ~joinable(info.path) THEN None
            ELSE IF join(info.path) \in DOMAIN index.path_map
                 THEN index.path_map[join(info.path)]
            ELSE IF order = <<>> THEN None
            ELSE tie_break(info, index.entity_info, order)

\* the ids _find_matching_entity can return: one per iteration order of the
\* set of candidates
_find_matching_entity(index, entity_id, entity) ==
    {find_in_order(index, entity_id, entity, order) :
        order \in Perms(potential_matches(index, entity_id, entity))}

\* children.extend(child for child in more if child not in children)
RECURSIVE extend_children(_, _, _)
extend_children(children, more, i) ==
    IF i > Len(more) THEN children
    ELSE extend_children(IF more[i] \in ToSet(children) THEN children
                         ELSE Append(children, more[i]), more, i + 1)

\* the children that, once mapped, are entities of the result
RECURSIVE updated_children(_, _, _, _)
updated_children(children, mappings, entities, i) ==
    IF i > Len(children) THEN <<>>
    ELSE LET mapped_id == Get(mappings, children[i], children[i])
         IN (IF mapped_id \in DOMAIN entities THEN <<mapped_id>> ELSE <<>>)
            \o updated_children(children, mappings, entities, i + 1)

\* the secondary transitions, from the i-th on, stored under their id or
\* under id_N, N the number of transitions of the result; spins is set when
\* id_N is taken too and the while loop cannot end
RECURSIVE add_secondary_transitions(_, _, _, _)
add_secondary_transitions(result, graph, mappings, i) ==
    IF i > Len(graph.torder) THEN [merged |-> result, spins |-> FALSE]
    ELSE LET trans_id == graph.torder[i]
             trans_data == graph.transitions[trans_id]
             source == Get(mappings, trans_data.source, trans_data.source)
             target == Get(mappings, trans_data.target, trans_data.target)
             suffixed_id == trans_id \o "_"
                            \o ToString(Cardinality(DOMAIN result.transitions))
             new_trans_id == IF trans_id \in DOMAIN result.transitions
                             THEN suffixed_id ELSE trans_id
         IN IF source \notin DOMAIN result.entities
               \/ target \notin DOMAIN result.entities
            THEN add_secondary_transitions(result, graph, mappings, i + 1)
            ELSE IF new_trans_id \in DOMAIN result.transitions
            THEN [merged |-> result, spins |-> TRUE]
            ELSE add_secondary_transitions(
                    [result EXCEPT
                        !.transitions = Put(@, new_trans_id,
                            [source |-> source, target |-> target,
                             properties |-> trans_data.properties]),
                        !.torder = Append(@, new_trans_id)],
                    graph, mappings, i + 1)

\* a GraphMerger() on which merge_graphs has not been called
IdleRR ==
    /\ rr_pc = "idle"
    /\ rr_primary = None
    /\ rr_secondary = None
    /\ rr_index = EmptyIndex
    /\ rr_merged = EmptyMergedRR
    /\ rr_mappings = EmptyFn
    /\ rr_idx = 0
    /\ rr_match = None

\* merge_graphs: index the primary graph and copy its entities and roots
RRBuildPrimary ==
    /\ rr_pc = "start"
    /\ LET built == _build_entity_info(rr_primary, rr_index, TRUE)
       IN /\ rr_index' = built.index
          /\ rr_pc' = IF built.raised THEN "raised" ELSE "primary_indexed"
          /\ rr_merged' = IF built.raised THEN rr_merged
                          ELSE [rr_merged EXCEPT
                                   !.entities = rr_primary.entities,
                                   !.eorder = rr_primary.eorder,
                                   !.roots = rr_primary.roots]
    /\ UNCHANGED <<rr_primary, rr_secondary, rr_mappings, rr_idx, rr_match>>
    /\ UNCHANGED OutsideRR

\* merge_graphs: index the secondary graph
RRBuildSecondary ==
    /\ rr_pc = "primary_indexed"
    /\ LET built == _build_entity_info(rr_secondary, rr_index, FALSE)
       IN /\ rr_index' = built.index
          /\ rr_pc' = IF built.raised THEN "raised" ELSE "entities"
    /\ rr_mappings' = EmptyFn
    /\ rr_idx' = 0
    /\ UNCHANGED <<rr_primary, rr_secondary, rr_merged, rr_match>>
    /\ UNCHANGED OutsideRR

\* merge_graphs: match or add the next secondary entity
RRProcessSecondaryEntity ==
    /\ rr_pc = "entities"
    /\ rr_idx < Len(rr_secondary.eorder)
    /\ LET entity_id == rr_secondary.eorder[rr_idx + 1]
           entity == rr_secondary.entities[entity_id]
       IN \E matching_id \in _find_matching_entity(rr_index, entity_id, entity) :
            /\ rr_match' = matching_id
            /\ IF Truthy(matching_id) /\ matching_id \in DOMAIN rr_merged.entities
               THEN /\ rr_mappings' = Put(rr_mappings, entity_id, matching_id)
                    /\ rr_merged' =
                        [rr_merged EXCEPT !.entities[matching_id] =
                            [@ EXCEPT
                                !.properties = Update(@, entity.properties),
                                !.children = extend_children(@, entity.children, 1)]]
               ELSE /\ rr_mappings' = rr_mappings
                    /\ rr_merged' =
                        [rr_merged EXCEPT
                            !.entities = Put(@, entity_id, entity),
                            !.eorder = Append(@, entity_id),
                            !.roots = IF entity_id \in ToSet(rr_secondary.roots)
                                      THEN Append(@, entity_id) ELSE @]
    /\ rr_idx' = rr_idx + 1
    /\ UNCHANGED <<rr_pc, rr_primary, rr_secondary, rr_index>>
    /\ UNCHANGED OutsideRR

\* merge_graphs: rewrite the children of every entity of the result
RRUpdateChildren ==
    /\ rr_pc = "entities"
    /\ rr_idx = Len(rr_secondary.eorder)
    /\ rr_merged' =
        [rr_merged EXCEPT !.entities =
            [id \in DOMAIN @ |->
                [@[id] EXCEPT !.children =
                    updated_children(@, rr_mappings, rr_merged.entities, 1)]]]
    /\ rr_pc' = "transitions"
    /\ UNCHANGED <<rr_primary, rr_secondary, rr_index, rr_mappings, rr_idx, rr_match>>
    /\ UNCHANGED OutsideRR

\* merge_graphs: copy the primary transitions, add the secondary ones, return
RRProcessTransitions ==
    /\ rr_pc = "transitions"
    /\ LET added == add_secondary_transitions(
                        [rr_merged EXCEPT !.transitions = rr_primary.transitions,
                                          !.torder = rr_primary.torder],
                        rr_secondary, rr_mappings, 1)
       IN /\ rr_merged' = added.merged
          /\ rr_pc' = IF added.spins THEN "spinning" ELSE "returned"
    /\ UNCHANGED <<rr_primary, rr_secondary, rr_index, rr_mappings, rr_idx, rr_match>>
    /\ UNCHANGED OutsideRR

\* merge_graphs has raised out of _build_entity_info; the caller asks the
\* merger it still holds for the match of an entity of one of the graphs
RRFindMatchingEntity ==
    /\ rr_pc = "raised"
    /\ \E graph \in {rr_primary, rr_secondary} :
       \E entity_id \in DOMAIN graph.entities :
       \E matching_id \in
            _find_matching_entity(rr_index, entity_id, graph.entities[entity_id]) :
            rr_match' = matching_id
    /\ rr_pc' = "asked"
    /\ UNCHANGED <<rr_primary, rr_secondary, rr_index, rr_merged, rr_mappings, rr_idx>>
    /\ UNCHANGED OutsideRR

NextRR ==
    \/ RRBuildPrimary
    \/ RRBuildSecondary
    \/ RRProcessSecondaryEntity
    \/ RRUpdateChildren
    \/ RRProcessTransitions
    \/ RRFindMatchingEntity

----------------------------------------------------------------------------
(* GraphMerger.build_graph_context of dict_merger_optimized_v3.py, one      *)
(* step per call of, and return from, the nested process_entity.  A frame   *)
(* of bgc_stack holds the arguments the calls of line 92 need and `next`,   *)
(* the position of the children loop of line 90.                            *)

\* the depth of calls at which Python raises RecursionError
RecursionLimit == 4

\* lines 72-88: the entity is entered into the context
record_entity(graph, context, entity_id, parent_path, parent_id, level, root_id) ==
    LET name == normalize_entity_name(graph.entities[entity_id])
        full_path == IF parent_path # "" THEN parent_path \o "/" \o name ELSE name
    IN [context EXCEPT
           !.entity_paths = Put(@, entity_id,
               [entity_id |-> entity_id, name |-> name, full_path |-> full_path,
                level |-> level, parent_id |-> parent_id,
                root_id |-> IF Truthy(root_id) THEN root_id ELSE entity_id]),
           !.path_order = IF entity_id \in DOMAIN context.entity_paths THEN @
                          ELSE Append(@, entity_id),
           !.path_to_id = Put(@, full_path, entity_id),
           !.children_map =
               IF Truthy(parent_id)
               THEN Put(@, parent_id, Get(@, parent_id, {}) \cup {entity_id})
               ELSE @]

\* process_entity is called: it raises when the calls under way are
\* RecursionLimit deep, returns at once for an id that is no entity (lines
\* 69-70), and else enters the entity and starts on its children
process_entity_called(stack, entity_id, parent_path, parent_id, level, root_id) ==
    IF Len(stack) >= RecursionLimit
    THEN /\ bgc_pc' = "RecursionError"
         /\ bgc_stack' = stack
         /\ bgc_context' = bgc_context
    ELSE IF entity_id \notin DOMAIN bgc_graph.entities
    THEN /\ bgc_pc' = bgc_pc
         /\ bgc_stack' = stack
         /\ bgc_context' = bgc_context
    ELSE LET recorded == record_entity(bgc_graph, bgc_context, entity_id,
                                       parent_path, parent_id, level, root_id)
         IN /\ bgc_pc' = bgc_pc
            /\ bgc_context' = recorded
            /\ bgc_stack' = Append(stack,
                   [entity_id |-> entity_id,
                    full_path |-> recorded.entity_paths[entity_id].full_path,
                    level |-> level,
                    root_id |-> recorded.entity_paths[entity_id].root_id,
                    next |-> 1])

\* build_graph_context is not under way
IdleBGC ==
    /\ bgc_pc = "idle"
    /\ bgc_graph = None
    /\ bgc_context = EmptyContext
    /\ bgc_stack = <<>>
    /\ bgc_root = 0

\* lines 95-96: process_entity(root_id) for the next root
BGCProcessRoot ==
    /\ bgc_pc = "running"
    /\ bgc_stack = <<>>
    /\ bgc_root < Len(bgc_graph.roots)
    /\ bgc_root' = bgc_root + 1
    /\ process_entity_called(bgc_stack, bgc_graph.roots[bgc_root + 1], "", None, 0, None)
    /\ UNCHANGED bgc_graph
    /\ UNCHANGED OutsideBGC

\* lines 90-93: the next child of the innermost call
BGCProcessChild ==
    /\ bgc_pc = "running"
    /\ bgc_stack # <<>>
    /\ LET frame == bgc_stack[Len(bgc_stack)]
           children == bgc_graph.entities[frame.entity_id].children
           advanced == [bgc_stack EXCEPT ![Len(bgc_stack)].next = @ + 1]
       IN /\ frame.next <= Len(children)
          /\ IF children[frame.next] \in DOMAIN bgc_graph.entities
             THEN process_entity_called(advanced, children[frame.next], frame.full_path,
                                        frame.entity_id, frame.level + 1, frame.root_id)
             ELSE /\ bgc_stack' = advanced
                  /\ UNCHANGED <<bgc_pc, bgc_context>>
    /\ UNCHANGED <<bgc_graph, bgc_root>>
    /\ UNCHANGED OutsideBGC

\* the innermost call has gone through its children and returns
BGCReturnFromEntity ==
    /\ bgc_pc = "running"
    /\ bgc_stack # <<>>
    /\ LET frame == bgc_stack[Len(bgc_stack)]
       IN frame.next > Len(bgc_graph.entities[frame.entity_id].children)
    /\ bgc_stack' = SubSeq(bgc_stack, 1, Len(bgc_stack) - 1)
    /\ UNCHANGED <<bgc_pc, bgc_graph, bgc_context, bgc_root>>
    /\ UNCHANGED OutsideBGC

\* every root is done: build_graph_context returns
BGCReturn ==
    /\ bgc_pc = "running"
    /\ bgc_stack = <<>>
    /\ bgc_root = Len(bgc_graph.roots)
    /\ bgc_pc' = "returned"
    /\ UNCHANGED <<bgc_graph, bgc_context, bgc_stack, bgc_root>>
    /\ UNCHANGED OutsideBGC

NextBGC ==
    \/ BGCProcessRoot
    \/ BGCProcessChild
    \/ BGCReturnFromEntity
    \/ BGCReturn

----------------------------------------------------------------------------
(* merge_graph_dicts of dict_merger_v2.py.  A path is the list of ids from  *)
(* a root down to the entity; the None that get_entity_path returns for an  *)
(* entity under no root is the empty list here (`if path:` treats the two   *)
(* alike, and a path that is found is never empty).                         *)

NoPath == <<>>

\* get_entity_path: [id] for a root, else the path of the first entity, in
\* dict order, that lists the entity and has a path, then the id.  The
\* recursion has no visited set: a chain of calls longer than the number of
\* entities repeats an entity and never ends (RecursionError): `raised`.
RECURSIVE get_entity_path(_, _, _)
RECURSIVE path_through_parents(_, _, _, _)
get_entity_path(graph, entity_id, depth) ==
    IF entity_id \in ToSet(graph.roots) THEN [path |-> <<entity_id>>, raised |-> FALSE]
    ELSE IF depth > Cardinality(DOMAIN graph.entities)
    THEN [path |-> NoPath, raised |-> TRUE]
    ELSE path_through_parents(graph, entity_id, depth, 1)

path_through_parents(graph, entity_id, depth, i) ==
    IF i > Len(graph.eorder) THEN [path |-> NoPath, raised |-> FALSE]
    ELSE IF entity_id \in ToSet(graph.entities[graph.eorder[i]].children)
    THEN LET new_path == get_entity_path(graph, graph.eorder[i], depth + 1)
         IN IF new_path.raised THEN new_path
            ELSE IF new_path.path # NoPath
            THEN [path |-> Append(new_path.path, entity_id), raised |-> FALSE]
            ELSE path_through_parents(graph, entity_id, depth, i + 1)
    ELSE path_through_parents(graph, entity_id, depth, i + 1)

\* get_all_paths from the i-th entity on: the dict of the paths found, with
\* its insertion order
RECURSIVE get_all_paths(_, _, _)
get_all_paths(graph, paths, i) ==
    IF i > Len(graph.eorder) THEN paths
    ELSE LET entity_id == graph.eorder[i]
             found == get_entity_path(graph, entity_id, 0)
         IN IF found.raised THEN [paths EXCEPT !.raised = TRUE]
            ELSE get_all_paths(graph,
                    IF found.path # NoPath
                    THEN [paths EXCEPT !.of = Put(@, entity_id, found.path),
                                       !.order = Append(@, entity_id)]
                    ELSE paths,
                    i + 1)

EmptyPaths == [of |-> EmptyFn, order |-> <<>>, raised |-> FALSE]

\* find_equivalent_path: the first entity whose path has the length of
\* entity_path and agrees with it at the positions range(len(path) - 1)
find_equivalent_path(entity_path, paths_dict) ==
    LET hits == {i \in DOMAIN paths_dict.order :
                    LET path == paths_dict.of[paths_dict.order[i]]
                    IN /\ Len(path) = Len(entity_path)
                       /\ \A k \in 1..(Len(path) - 1) : path[k] = entity_path[k]}
    IN IF hits = {} THEN None
       ELSE paths_dict.order[CHOOSE i \in hits : \A j \in hits : i <= j]

\* merge_properties: the primary's values win
merge_properties(primary_props, secondary_props) == Update(secondary_props, primary_props)

EmptyMergedGD == [entities |-> EmptyFn, transitions |-> EmptyFn, roots |-> <<>>]

\* merge_graph_dicts is not under way
IdleGD ==
    /\ gd_pc = "idle"
    /\ gd_primary = None
    /\ gd_secondary = None
    /\ gd_merged = EmptyMergedGD
    /\ gd_primary_paths = EmptyPaths
    /\ gd_secondary_paths = EmptyPaths
    /\ gd_processed = {}
    /\ gd_idx = 0

\* lines 48-61: merged is a deep copy of the primary graph; the paths of
\* both graphs
GDInitialize ==
    /\ gd_pc = "start"
    /\ LET primary_paths == get_all_paths(gd_primary, EmptyPaths, 1)
           secondary_paths == get_all_paths(gd_secondary, EmptyPaths, 1)
       IN /\ gd_primary_paths' = primary_paths
          /\ gd_secondary_paths' =
                IF primary_paths.raised THEN gd_secondary_paths ELSE secondary_paths
          /\ gd_pc' = IF primary_paths.raised \/ secondary_paths.raised
                      THEN "raised" ELSE "entities"
    /\ gd_merged' = [entities |-> gd_primary.entities,
                     transitions |-> gd_primary.transitions,
                     roots |-> gd_primary.roots]
    /\ gd_processed' = DOMAIN gd_primary.entities
    /\ gd_idx' = 1
    /\ UNCHANGED <<gd_primary, gd_secondary>>
    /\ UNCHANGED OutsideGD

\* lines 64-87, one secondary entity
GDProcessSecondaryEntity ==
    /\ gd_pc = "entities"
    /\ gd_idx <= Len(gd_secondary.eorder)
    /\ LET entity_id == gd_secondary.eorder[gd_idx]
           entity_data == gd_secondary.entities[entity_id]
           entity_path == Get(gd_secondary_paths.of, entity_id, NoPath)
       IN IF entity_id \in gd_processed
          THEN /\ gd_merged' = [gd_merged EXCEPT !.entities[entity_id].properties =
                                   merge_properties(@, entity_data.properties)]
               /\ UNCHANGED gd_processed
          ELSE IF entity_path = NoPath
          THEN UNCHANGED <<gd_merged, gd_processed>>
          ELSE IF find_equivalent_path(entity_path, gd_primary_paths) = None
          THEN /\ gd_merged' =
                    [gd_merged EXCEPT
                        !.entities = Put(@, entity_id, entity_data),
                        !.roots = IF entity_id \in ToSet(gd_secondary.roots)
                                  THEN Append(@, entity_id) ELSE @]
               /\ gd_processed' = gd_processed \cup {entity_id}
          ELSE UNCHANGED <<gd_merged, gd_processed>>
    /\ gd_idx' = IF gd_idx = Len(gd_secondary.eorder) THEN 1 ELSE gd_idx + 1
    /\ gd_pc' = IF gd_idx = Len(gd_secondary.eorder) THEN "transitions" ELSE gd_pc
    /\ UNCHANGED <<gd_primary, gd_secondary, gd_primary_paths, gd_secondary_paths>>
    /\ UNCHANGED OutsideGD

\* the secondary graph has no entity
GDNoSecondaryEntity ==
    /\ gd_pc = "entities"
    /\ gd_secondary.eorder = <<>>
    /\ gd_pc' = "transitions"
    /\ UNCHANGED <<gd_primary, gd_secondary, gd_merged, gd_primary_paths,
                   gd_secondary_paths, gd_processed, gd_idx>>
    /\ UNCHANGED OutsideGD

\* lines 90-106, one secondary transition; the candidate id of the while
\* loop stays the same, so a taken candidate is never left
GDProcessTransition ==
    /\ gd_pc = "transitions"
    /\ gd_idx <= Len(gd_secondary.torder)
    /\ LET trans_id == gd_secondary.torder[gd_idx]
           trans_data == gd_secondary.transitions[trans_id]
           taken == DOMAIN gd_merged.transitions
           new_trans_id == IF trans_id \in taken
                           THEN trans_id \o "_" \o ToString(Cardinality(taken))
                           ELSE trans_id
       IN IF /\ trans_data.source \in DOMAIN gd_merged.entities
             /\ trans_data.target \in DOMAIN gd_merged.entities
          THEN IF new_trans_id \in taken
               THEN gd_pc' = "hang" /\ UNCHANGED gd_merged
               ELSE /\ gd_merged' = [gd_merged EXCEPT !.transitions =
                                        Put(@, new_trans_id, trans_data)]
                    /\ gd_pc' = gd_pc
          ELSE UNCHANGED <<gd_merged, gd_pc>>
    /\ gd_idx' = gd_idx + 1
    /\ UNCHANGED <<gd_primary, gd_secondary, gd_primary_paths, gd_secondary_paths,
                   gd_processed>>
    /\ UNCHANGED OutsideGD

\* line 108
GDReturn ==
    /\ gd_pc = "transitions"
    /\ gd_idx > Len(gd_secondary.torder)
    /\ gd_pc' = "returned"
    /\ UNCHANGED <<gd_primary, gd_secondary, gd_merged, gd_primary_paths,
                   gd_secondary_paths, gd_processed, gd_idx>>
    /\ UNCHANGED OutsideGD

NextGD ==
    \/ GDInitialize
    \/ GDProcessSecondaryEntity
    \/ GDNoSecondaryEntity
    \/ GDProcessTransition
    \/ GDReturn

----------------------------------------------------------------------------
(* The initial states *)

\* no GraphMerger.merge_graphs call is under way
IdleV3 ==
    /\ pc = "idle"
    /\ primary_graph = None
    /\ secondary_graph = None
    /\ primary_context = EmptyContext
    /\ secondary_context = EmptyContext
    /\ merged = EmptyMerged
    /\ transition_map = EmptyFn
    /\ idx = 0

\* the caller has made no earlier GraphMerger.merge_graphs call
IdleComm == comm_calls = 0 /\ comm_first = EmptyMerged

IdleOutsideV3 == IdleGen /\ IdleDM /\ IdleV2 /\ IdleComm /\ IdleVal /\ IdleAlt /\ IdleRR /\ IdleBGC /\ IdleGD
IdleOutsideGen == IdleV3 /\ IdleDM /\ IdleV2 /\ IdleComm /\ IdleVal /\ IdleAlt /\ IdleRR /\ IdleBGC /\ IdleGD
IdleOutsideDM == IdleV3 /\ IdleGen /\ IdleV2 /\ IdleComm /\ IdleVal /\ IdleAlt /\ IdleRR /\ IdleBGC /\ IdleGD
IdleOutsideV2 == IdleV3 /\ IdleGen /\ IdleDM /\ IdleComm /\ IdleVal /\ IdleAlt /\ IdleRR /\ IdleBGC /\ IdleGD
IdleOutsideVal == IdleV3 /\ IdleGen /\ IdleDM /\ IdleV2 /\ IdleComm /\ IdleAlt /\ IdleRR /\ IdleBGC /\ IdleGD
IdleOutsideAlt == IdleV3 /\ IdleGen /\ IdleDM /\ IdleV2 /\ IdleComm /\ IdleVal /\ IdleRR /\ IdleBGC /\ IdleGD
IdleOutsideRR == IdleV3 /\ IdleGen /\ IdleDM /\ IdleV2 /\ IdleComm /\ IdleVal /\ IdleAlt /\ IdleBGC /\ IdleGD
IdleOutsideBGC == IdleV3 /\ IdleGen /\ IdleDM /\ IdleV2 /\ IdleComm /\ IdleVal /\ IdleAlt /\ IdleRR /\ IdleGD
IdleOutsideGD == IdleV3 /\ IdleGen /\ IdleDM /\ IdleV2 /\ IdleComm /\ IdleVal /\ IdleAlt /\ IdleRR /\ IdleBGC

\* the state of a GraphMerger() before merge_graphs is called on two graphs
StartV3(primary, secondary) ==
    /\ pc = "start"
    /\ primary_graph = primary
    /\ secondary_graph = secondary
    /\ primary_context = EmptyContext
    /\ secondary_context = EmptyContext
    /\ merged = EmptyMerged
    /\ transition_map = EmptyFn
    /\ idx = 0
    /\ IdleOutsideV3

\* the caller keeps the graph merge_graphs(A, B) returned and calls
\* GraphMerger().merge_graphs(B, A)
CallSwapped ==
    /\ pc = "done"
    /\ comm_calls = 0
    /\ comm_calls' = 1
    /\ comm_first' = merged
    /\ pc' = "start"
    /\ primary_graph' = secondary_graph
    /\ secondary_graph' = primary_graph
    /\ primary_context' = EmptyContext
    /\ secondary_context' = EmptyContext
    /\ merged' = EmptyMerged
    /\ transition_map' = EmptyFn
    /\ idx' = 0
    /\ UNCHANGED OutsideComm

NextComm ==
    \/ NextV3
    \/ CallSwapped

----------------------------------------------------------------------------
(* Inputs *)

Entity(name, children, properties) ==
    [name |-> name, children |-> children, properties |-> properties]

Transition(source, target, properties) ==
    [source |-> source, target |-> target, properties |-> properties]

\* the dicts over a set of keys, one per choice of values
Dicts(keys, values) == UNION {[ks -> values] : ks \in SUBSET keys}

\* lists without repetition, of length at most n, over S
Lists(S, n) ==
    UNION {{s \in [1..k -> S] : \A i, j \in 1..k : s[i] = s[j] => i = j} : k \in 0..n}

\* longest children list, longest roots list, most transitions of an input
MaxChildren == 2
MaxRoots == 2
MaxTransitions == 2

EntityDicts(ids, refs, names, props) ==
    UNION {[E -> {Entity(nm, ch, pr) :
                    nm \in names, ch \in Lists(refs, MaxChildren), pr \in props}] :
           E \in SUBSET ids}

TransitionDicts(tids, ends, props) ==
    UNION {[T -> {Transition(src, tgt, pr) : src \in ends, tgt \in ends, pr \in props}] :
           T \in {S \in SUBSET tids : Cardinality(S) <= MaxTransitions}}

\* the ids that list id as a child
Parents(graph, id) ==
    {p \in DOMAIN graph.entities : id \in ToSet(graph.entities[p].children)}

\* the entities reached from the roots in at most n steps along children
RECURSIVE Reach(_, _)
Reach(graph, n) ==
    IF n = 0 THEN ToSet(graph.roots) \cap DOMAIN graph.entities
    ELSE LET r == Reach(graph, n - 1)
         IN r \cup (UNION {ToSet(graph.entities[id].children) : id \in r}
                      \cap DOMAIN graph.entities)

\* invariants 1-5 of the data model: no dangling child, root or transition
\* endpoint, the roots are the entities without a parent, every other entity
\* has one parent and hangs under a root (so the children relation is a forest)
WellFormed(graph) ==
    LET ids == DOMAIN graph.entities
    IN /\ \A id \in ids : ToSet(graph.entities[id].children) \subseteq ids
       /\ ToSet(graph.roots) = {id \in ids : Parents(graph, id) = {}}
       /\ \A id \in ids : Cardinality(Parents(graph, id)) <= 1
       /\ Reach(graph, Cardinality(ids)) = ids
       /\ \A t \in DOMAIN graph.transitions :
             /\ graph.transitions[t].source \in ids
             /\ graph.transitions[t].target \in ids

\* the children dicts over E that are forests: every child is in E, no
\* entity has two parents, and every entity hangs under a parentless one
ForestShapes(E) ==
    {c \in [E -> Lists(E, MaxChildren)] :
        LET g == [entities |-> [id \in E |-> Entity("", c[id], EmptyFn)],
                  roots |-> <<>>]
            top == {id \in E : Parents(g, id) = {}}
            RECURSIVE Down(_)
            Down(n) == IF n = 0 THEN top
                       ELSE Down(n - 1) \cup UNION {ToSet(c[id]) : id \in Down(n - 1)}
        IN /\ \A id \in E : Cardinality(Parents(g, id)) <= 1
           /\ Down(Cardinality(E)) = E}

\* one insertion order of a dict when its order is never read
SomeOrder(S) == CHOOSE s \in Perms(S) : TRUE

\* Use holds of some well-formed graph (WellFormed holds of each) over the
\* given ids: a forest shape, names and properties for its entities, its
\* parentless entities as roots in any order, transitions between entities;
\* the entities dict in every insertion order when allOrders
SomeWellFormed(ids, names, props, tids, ends, tprops, allOrders, Use(_)) ==
    \E E \in SUBSET ids : \E c \in ForestShapes(E) :
        LET top == {id \in E : \A p \in E : id \notin ToSet(c[p])}
        IN \E nm \in [E -> names], pr \in [E -> props] :
           \E eo \in IF allOrders THEN Perms(E) ELSE {SomeOrder(E)} :
           \E r \in {x \in Perms(top) : Len(x) <= MaxRoots} :
           \E t \in TransitionDicts(tids, ends \cap E, tprops) :
               Use([entities |-> [id \in E |-> Entity(nm[id], c[id], pr[id])],
                    eorder |-> eo, transitions |-> t,
                    torder |-> SomeOrder(DOMAIN t), roots |-> r])

\* the inputs of the default specification: two well-formed graphs that
\* share the ids a and b, with names that differ in case and padding only
PrimaryIds == {"a", "b", "c"}
SecondaryIds == {"a", "b"}
PrimaryNames == {"X", "Y"}
SecondaryNames == {" x", "y"}

SomePrimary(Use(_)) ==
    SomeWellFormed(PrimaryIds, PrimaryNames, {EmptyFn}, {"t1"}, {"a"}, {EmptyFn}, FALSE, Use)

SomeSecondary(Use(_)) ==
    SomeWellFormed(SecondaryIds, SecondaryNames, {EmptyFn}, {"t1"}, {"a"}, {EmptyFn}, TRUE, Use)

Init == SomePrimary(LAMBDA p : SomeSecondary(LAMBDA s : StartV3(p, s)))

Spec == Init /\ [][NextV3]_vars

----------------------------------------------------------------------------
(* merge_graphs(G, G) on the well-formed graphs over three ids, whose names *)
(* include two that normalize to the same string                            *)

SelfIds == {"a", "b", "c"}
SelfNames == {"X", " x", "Y"}

InitSelf ==
    SomeWellFormed(SelfIds, SelfNames, {EmptyFn}, {"t1"}, {"a"}, {EmptyFn}, TRUE,
                   LAMBDA g : StartV3(g, g))

SpecSelf == InitSelf /\ [][NextV3]_vars

----------------------------------------------------------------------------
(* Graphs that need not be well-formed: children, roots and transition      *)
(* endpoints may name ids that are no entity, and children may form cycles. *)
(* Every such graph up to a total size is an input.                         *)

\* largest input: entities + children entries + roots + transitions
MaxSize == 3

RECURSIVE SumChildren(_, _)
SumChildren(entities, ids) ==
    IF ids = {} THEN 0
    ELSE LET id == CHOOSE x \in ids : TRUE
         IN Len(entities[id].children) + SumChildren(entities, ids \ {id})

Size(graph) ==
    Cardinality(DOMAIN graph.entities)
    + SumChildren(graph.entities, DOMAIN graph.entities)
    + Len(graph.roots) + Cardinality(DOMAIN graph.transitions)

SomeGraph(ids, refs, names, tids, ends, Use(_)) ==
    \E e \in EntityDicts(ids, refs, names, {EmptyFn}) :
    \E t \in TransitionDicts(tids, ends, {EmptyFn}) :
    \E eo \in Perms(DOMAIN e), to \in Perms(DOMAIN t), r \in Lists(refs, MaxRoots) :
        LET g == [entities |-> e, eorder |-> eo, transitions |-> t,
                  torder |-> to, roots |-> r]
        IN Size(g) <= MaxSize /\ Use(g)

SomeAnyPrimary(Use(_)) ==
    SomeGraph({"a", "b"}, {"a", "b"}, {"X"}, {"t1", "t2"}, {"a", "b"}, Use)

SomeAnySecondary(Use(_)) ==
    SomeGraph({"a", "c"}, {"a", "c"}, {" x", "y"}, {"t1"}, {"a", "c"}, Use)

InitAny == SomeAnyPrimary(LAMBDA p : SomeAnySecondary(LAMBDA s : StartV3(p, s)))

SpecAny == InitAny /\ [][NextV3]_vars

----------------------------------------------------------------------------
(* Inputs with properties: well-formed graphs over two ids each, sharing   *)
(* the id a, whose entities and transitions carry any dict over two keys;   *)
(* the primary side writes the value p, the secondary side the value s.     *)

PropertyKeys == {"k1", "k2"}

SomePropsPrimary(Use(_)) ==
    SomeWellFormed({"a", "b"}, {"X"}, Dicts(PropertyKeys, {"p"}),
                   {"t1"}, {"a"}, {"k1" :> "p"}, FALSE, Use)

SomePropsSecondary(Use(_)) ==
    SomeWellFormed({"a", "c"}, {" x", "y"}, Dicts(PropertyKeys, {"s"}),
                   {"t1"}, {"c"}, {("k1" :> "s") @@ ("k2" :> "s")}, TRUE, Use)

InitProps ==
    SomePropsPrimary(LAMBDA p : SomePropsSecondary(LAMBDA s : StartV3(p, s)))

SpecProps == InitProps /\ [][NextV3]_vars

----------------------------------------------------------------------------
(* The scenario of generate_test_graphs, cut down to the Frontend branch:  *)
(* the entity dicts in every insertion order, with or without the          *)
(* transitions t1 and t2.                                                  *)

ScenarioPrimaryEntities ==
    ("dept1" :> Entity("Engineering", <<"team1">>, ("location" :> "NYC"))) @@
    ("team1" :> Entity("Frontend", <<"emp1">>, ("tech" :> "React"))) @@
    ("emp1" :> Entity("John", <<>>, ("role" :> "developer")))

ScenarioSecondaryEntities ==
    ("dept2" :> Entity("Engineering", <<"team3">>, ("location" :> "SF"))) @@
    ("team3" :> Entity("Frontend", <<"emp3">>, ("tech" :> "Vue"))) @@
    ("emp3" :> Entity("Sarah", <<>>, ("role" :> "developer")))

ScenarioPrimaryTransitions ==
    {EmptyFn, "t1" :> Transition("team1", "emp1", ("type" :> "collaboration"))}

ScenarioSecondaryTransitions ==
    {EmptyFn, "t2" :> Transition("team3", "emp3", ("type" :> "management"))}

IsScenario ==
    /\ primary_graph.entities = ScenarioPrimaryEntities
    /\ secondary_graph.entities = ScenarioSecondaryEntities

InitScenario ==
    \E pt \in ScenarioPrimaryTransitions, st \in ScenarioSecondaryTransitions :
    \E peo \in Perms(DOMAIN ScenarioPrimaryEntities),
       seo \in Perms(DOMAIN ScenarioSecondaryEntities) :
    \E pto \in Perms(DOMAIN pt), sto \in Perms(DOMAIN st) :
        StartV3([entities |-> ScenarioPrimaryEntities, eorder |-> peo,
                 transitions |-> pt, torder |-> pto, roots |-> <<"dept1">>],
                [entities |-> ScenarioSecondaryEntities, eorder |-> seo,
                 transitions |-> st, torder |-> sto, roots |-> <<"dept2">>])

SpecScenario == InitScenario /\ [][NextV3]_vars

\* C10: in the scenario, the returned graph has the ID map
\* {dept2 -> dept1, team3 -> team1}, emp3 inserted under its own id, the
\* entity ids {dept1, team1, emp1, emp3}, team1's children {emp1, emp3} and
\* the roots {dept1}.
C10_Scenario ==
    (pc = "done" /\ IsScenario) =>
        /\ secondary_context.entity_mappings = ("dept2" :> "dept1") @@ ("team3" :> "team1")
        /\ DOMAIN merged.entities = {"dept1", "team1", "emp1", "emp3"}
        /\ merged.entities["emp3"].name = "Sarah"
        /\ merged.entities["team1"].children = {"emp1", "emp3"}
        /\ merged.roots = {"dept1"}

C10_Witness == pc = "done" /\ IsScenario /\ "emp3" \in DOMAIN merged.entities

----------------------------------------------------------------------------
(* generate_unique_id on every original id and every set of taken ids of a *)
(* small universe                                                           *)

InitGen ==
    /\ \E original_id \in GenOriginals, existing_ids \in SUBSET GenTaken :
          /\ gen_original = original_id
          /\ gen_existing = existing_ids
    /\ gen_result = None
    /\ IdleOutsideGen

SpecGen == InitGen /\ [][NextGen]_vars

----------------------------------------------------------------------------
(* merge_graphs of dict_merger.py, first call on the fresh module state, on *)
(* two well-formed graphs that share the entity id a and the transition id  *)
(* t1                                                                       *)

SomeGraph1(Use(_)) ==
    SomeWellFormed({"a", "b"}, {"X"}, {EmptyFn}, {"t1"}, {"a"}, {EmptyFn}, TRUE, Use)

SomeGraph2(Use(_)) ==
    SomeWellFormed({"a", "c"}, {"X", "Y"}, {EmptyFn}, {"t1"}, {"a", "c"}, {EmptyFn}, TRUE, Use)

InitDM ==
    /\ SomeGraph1(LAMBDA g1 : SomeGraph2(LAMBDA g2 : StartDM(g1, g2)))
    /\ IdleOutsideDM

SpecDM == InitDM /\ [][NextDM]_vars

----------------------------------------------------------------------------
(* two successive merge_graphs calls of dict_merger.py in one process *)

SpecDMCalls == InitDM /\ [][NextDMCalls]_vars

----------------------------------------------------------------------------
(* LevelOptimizedMerger.merge_graphs on two graphs whose children relation  *)
(* is a forest and whose entities may omit 'children', 'properties' or      *)
(* (one of them) 'name'; the secondary's entity c can match by name path    *)

\* an entity dict with the keys that are not left out
EntityDict(fields, name, children, properties) ==
    [f \in fields |-> CASE f = "name" -> name
                        [] f = "children" -> children
                        [] OTHER -> properties]

SomeV2Graph(ids, name, props, tids, ends, rootOrders, Use(_)) ==
    \E E \in SUBSET ids : \E c \in ForestShapes(E) :
        LET top == {id \in E : \A p \in E : id \notin ToSet(c[p])}
            leaves == {id \in E : c[id] = <<>>}
        IN \E nameless \in {S \in SUBSET E : Cardinality(S) <= 1} :
           \E nochildren \in {{}, leaves}, noprops \in SUBSET E :
           \E r \in IF rootOrders THEN Perms(top) ELSE {SomeOrder(top)} :
           \E t \in TransitionDicts(tids, ends \cap E, {EmptyFn}) :
               Use([entities |->
                        [id \in E |->
                            EntityDict({"name", "children", "properties"}
                                           \ ((IF id \in nameless THEN {"name"} ELSE {})
                                              \cup (IF id \in nochildren THEN {"children"} ELSE {})
                                              \cup (IF id \in noprops THEN {"properties"} ELSE {})),
                                       name, c[id], props)],
                    eorder |-> SomeOrder(E), transitions |-> t,
                    torder |-> SomeOrder(DOMAIN t), roots |-> r])

SomeV2Primary(Use(_)) ==
    SomeV2Graph({"a", "b"}, "X", "k1" :> "p", {"t1"}, {"a"}, FALSE, Use)

SomeV2Secondary(Use(_)) ==
    SomeV2Graph({"a", "c"}, "X", "k1" :> "s", {"t1"}, {"c"}, TRUE, Use)

InitV2 ==
    /\ SomeV2Primary(LAMBDA p : SomeV2Secondary(LAMBDA s : StartV2(p, s)))
    /\ IdleOutsideV2

SpecV2 == InitV2 /\ [][NextV2]_vars

----------------------------------------------------------------------------
(* merge_graphs(A, B) followed by merge_graphs(B, A) on well-formed graphs  *)
(* with disjoint id sets                                                    *)

SomeA(Use(_)) ==
    SomeWellFormed({"a", "b"}, {"X", "Y"}, {EmptyFn}, {"t1"}, {"a"}, {EmptyFn}, TRUE, Use)

SomeB(Use(_)) ==
    SomeWellFormed({"c", "d"}, {" x", "y"}, {EmptyFn}, {}, {}, {EmptyFn}, TRUE, Use)

InitComm == SomeA(LAMBDA A : SomeB(LAMBDA B : StartV3(A, B)))

SpecComm == InitComm /\ [][NextComm]_vars

----------------------------------------------------------------------------
(* validate_graph on graphs that may lack a key, hold a value of the wrong  *)
(* type under a key, and whose entities may lack or mistype a field         *)

\* what an input entity looks like: its type, whether it has a name, and
\* for children and properties whether the key is absent or what it holds
EntityShapes ==
    {[kind |-> "str", name |-> FALSE, children |-> "absent", properties |-> "absent"]}
    \cup [kind : {"dict"}, name : BOOLEAN, children : {"absent", "list", "str"},
          properties : {"absent", "dict", "list"}]

EntityOfShape(shape) ==
    IF shape.kind = "str" THEN PyStr("e")
    ELSE PyDict((IF shape.name THEN "name" :> PyStr("X") ELSE EmptyFn)
                @@ (CASE shape.children = "list" -> "children" :> PyList(<<>>)
                      [] shape.children = "str" -> "children" :> PyStr("c")
                      [] OTHER -> EmptyFn)
                @@ (CASE shape.properties = "dict" -> "properties" :> PyDict(EmptyFn)
                      [] shape.properties = "list" -> "properties" :> PyList(<<>>)
                      [] OTHER -> EmptyFn))

ValIds == {"a", "b"}

SomeValue(Use(_)) ==
    \/ Use(PyStr("g"))
    \/ \E keys \in SUBSET {"entities", "transitions", "roots"} :
       \E E \in SUBSET ValIds : \E shape \in [E -> EntityShapes] :
       \E ek \in {"dict", "list"}, tk \in {"dict", "list"}, rk \in {"list", "dict"} :
           Use(PyDict(
               (IF "entities" \notin keys THEN EmptyFn
                ELSE "entities" :>
                        (IF ek = "dict"
                         THEN PyEntities([id \in E |-> EntityOfShape(shape[id])], SomeOrder(E))
                         ELSE PyList(<<>>)))
               @@ (IF "transitions" \notin keys THEN EmptyFn
                   ELSE "transitions" :>
                           (IF tk = "dict" THEN PyDict(EmptyFn) ELSE PyList(<<>>)))
               @@ (IF "roots" \notin keys THEN EmptyFn
                   ELSE "roots" :>
                           (IF rk = "list" THEN PyList(<<>>) ELSE PyDict(EmptyFn)))))

InitVal ==
    /\ SomeValue(LAMBDA g : val_graph = g)
    /\ val_outcome = "called"
    /\ IdleOutsideVal

SpecVal == InitVal /\ [][NextVal]_vars

----------------------------------------------------------------------------
(* _validate_merged_graph, applied twice, on graphs whose children, roots   *)
(* and transition endpoints may name ids that are no entity                 *)

SomeMergedGraph(Use(_)) ==
    \E e \in EntityDicts({"a", "b"}, {"a", "x", "y"}, {"X"}, {EmptyFn}) :
    \E t \in TransitionDicts({"t1"}, {"a", "x"}, {EmptyFn}) :
    \E r \in Lists({"a", "x"}, MaxRoots) :
        Use([entities |-> e, transitions |-> t, roots |-> r])

InitAlt ==
    /\ SomeMergedGraph(LAMBDA g : alt_merged = g)
    /\ alt_applied = 0
    /\ alt_once = None
    /\ IdleOutsideAlt

SpecAlt == InitAlt /\ [][NextAlt]_vars

----------------------------------------------------------------------------
(* Graphs with transitions whose source or target is None or empty *)

SomeEndsPrimary(Use(_)) ==
    SomeGraph({"a"}, {"a"}, {"X"}, {"t1"}, {"a", None, ""}, Use)

SomeEndsSecondary(Use(_)) ==
    SomeGraph({"c"}, {"c"}, {" x"}, {"t1", "t2"}, {"c", None, ""}, Use)

InitEnds == SomeEndsPrimary(LAMBDA p : SomeEndsSecondary(LAMBDA s : StartV3(p, s)))

SpecEnds == InitEnds /\ [][NextV3]_vars

----------------------------------------------------------------------------
(* Inputs of the runtime-reduced merger: a primary graph of up to four     *)
(* parentless entities, whose name is a str or None, and a secondary graph  *)
(* over the ids a and e with one name, children and one transition.         *)

SomeIndexed(ids, children, roots, names, tids, ends, Use(_)) ==
    \E e \in [ids -> {Entity(nm, ch, EmptyFn) :
                        nm \in names, ch \in Lists(children, MaxChildren)}] :
    \E t \in TransitionDicts(tids, ends, {EmptyFn}) :
    \E eo \in Perms(DOMAIN e), to \in Perms(DOMAIN t), r \in Lists(roots, MaxRoots) :
        Use([entities |-> e, eorder |-> eo, transitions |-> t,
             torder |-> to, roots |-> r])

SomeRRPrimary(Use(_)) ==
    \E ids \in SUBSET {"a", "b", "c", "d"} :
        SomeIndexed(ids, {}, {"d"}, {"X", None}, {}, {}, Use)

SomeRRSecondary(Use(_)) ==
    \E ids \in SUBSET {"a", "e"} :
        SomeIndexed(ids, {"e"}, {"a"}, {"X"}, {"t1"}, {"a"}, Use)

\* a new GraphMerger() on which merge_graphs(primary, secondary) is called
StartRR(primary, secondary) ==
    /\ rr_pc = "start"
    /\ rr_primary = primary
    /\ rr_secondary = secondary
    /\ rr_index = EmptyIndex
    /\ rr_merged = EmptyMergedRR
    /\ rr_mappings = EmptyFn
    /\ rr_idx = 0
    /\ rr_match = None
    /\ IdleOutsideRR

InitRR == SomeRRPrimary(LAMBDA p : SomeRRSecondary(LAMBDA s : StartRR(p, s)))

SpecRR == InitRR /\ [][NextRR]_vars

----------------------------------------------------------------------------
(* Inputs of LevelOptimizedMerger.merge_graphs that need not be forests:    *)
(* any children lists over the ids, so an entity can list itself, two       *)
(* entities can list each other, and an entity can be met at several        *)
(* depths; a name is a str and can be the empty str.                        *)

SomeV2AnyPrimary(Use(_)) ==
    \E ids \in SUBSET {"a", "b"} :
        SomeIndexed(ids, {"a", "b"}, {"a"}, {"X", ""}, {}, {}, Use)

SomeV2AnySecondary(Use(_)) ==
    \E ids \in SUBSET {"a", "c"} :
        SomeIndexed(ids, {"c"}, {"a"}, {"X", ""}, {"t1"}, {"c"}, Use)

InitV2Any ==
    /\ SomeV2AnyPrimary(LAMBDA p : SomeV2AnySecondary(LAMBDA s : StartV2(p, s)))
    /\ IdleOutsideV2

SpecV2Any == InitV2Any /\ [][NextV2]_vars

----------------------------------------------------------------------------
(* Inputs of build_graph_context run step by step: any children lists over  *)
(* a and b on up to three entities, so that a root can list itself and two  *)
(* entities can list each other.  The program takes its next step whenever  *)
(* it has one.                                                              *)

SomeBGCGraph(Use(_)) ==
    \E ids \in SUBSET {"a", "b", "c"} :
        SomeIndexed(ids, {"a", "b"}, {"a", "c"}, {"X"}, {}, {}, Use)

\* build_graph_context(graph, context) is called; lines 59-64 clear context
StartBGC(graph) ==
    /\ bgc_pc = "running"
    /\ bgc_graph = graph
    /\ bgc_context = EmptyContext
    /\ bgc_stack = <<>>
    /\ bgc_root = 0
    /\ IdleOutsideBGC

InitBGC == SomeBGCGraph(LAMBDA g : StartBGC(g))

SpecBGC == InitBGC /\ [][NextBGC]_vars /\ WF_vars(NextBGC)

----------------------------------------------------------------------------
(* Inputs with transition ids that look like the ids merge_graphs makes up: *)
(* the primary graph holds up to two of t1, t1_1 and t1_2 on the entity a,  *)
(* the secondary graph t1 and t2 on a and b.                                *)

SomeIdsPrimary(Use(_)) ==
    \E ids \in SUBSET {"a"} :
        SomeIndexed(ids, {}, {"a"}, {"X"}, {"t1", "t1_1", "t1_2"}, {"a"}, Use)

SomeIdsSecondary(Use(_)) ==
    \E ids \in SUBSET {"a", "b"} :
        SomeIndexed(ids, {}, {"b"}, {"X", "Y"}, {"t1", "t2"}, {"a", "b"}, Use)

InitIds == SomeIdsPrimary(LAMBDA p : SomeIdsSecondary(LAMBDA s : StartV3(p, s)))

SpecIds == InitIds /\ [][NextV3]_vars

----------------------------------------------------------------------------
(* Inputs of merge_graph_dicts: a primary graph over a and b and a          *)
(* secondary graph over a and c, with any children lists over b and over c. *)

SomeGDPrimary(Use(_)) ==
    \E ids \in SUBSET {"a", "b"} :
        SomeIndexed(ids, {"b"}, {"a"}, {"X"}, {"t1"}, {"a"}, Use)

SomeGDSecondary(Use(_)) ==
    \E ids \in SUBSET {"a", "c"} :
        SomeIndexed(ids, {"c"}, {"a", "c"}, {"X"}, {"t1"}, {"a", "c"}, Use)

\* merge_graph_dicts(primary, secondary) is called
StartGD(primary, secondary) ==
    /\ gd_pc = "start"
    /\ gd_primary = primary
    /\ gd_secondary = secondary
    /\ gd_merged = EmptyMergedGD
    /\ gd_primary_paths = EmptyPaths
    /\ gd_secondary_paths = EmptyPaths
    /\ gd_processed = {}
    /\ gd_idx = 0
    /\ IdleOutsideGD

InitGD == SomeGDPrimary(LAMBDA p : SomeGDSecondary(LAMBDA s : StartGD(p, s)))

SpecGD == InitGD /\ [][NextGD]_vars

----------------------------------------------------------------------------
(* Claims about GraphMerger.merge_graphs of dict_merger_optimized_v3.py *)

Returned == pc = "done"

\* the (source, target) pairs of a transitions dict
Pairs(transitions) ==
    {<<transitions[t].source, transitions[t].target>> : t \in DOMAIN transitions}

\* C1: in the returned graph every child id, every root and every
\* transition endpoint is a key of the returned entities, whatever dangling
\* references the inputs hold.
C1_InvariantClosure ==
    Returned =>
        LET ids == DOMAIN merged.entities
        IN /\ \A id \in ids : merged.entities[id].children \subseteq ids
           /\ merged.roots \subseteq ids
           /\ \A t \in DOMAIN merged.transitions :
                 /\ merged.transitions[t].source \in ids
                 /\ merged.transitions[t].target \in ids

\* C2: merge_graphs(G, G) returns G's entity ids, G's transition pairs, G's
\* roots, and for each entity its children set in G.
C2_Idempotence ==
    (Returned /\ primary_graph = secondary_graph) =>
        /\ DOMAIN merged.entities = DOMAIN primary_graph.entities
        /\ Pairs(merged.transitions) = Pairs(primary_graph.transitions)
        /\ merged.roots = ToSet(primary_graph.roots)
        /\ \A id \in DOMAIN primary_graph.entities :
              merged.entities[id].children = ToSet(primary_graph.entities[id].children)

\* the secondary entities matched to the primary entity P
MatchedTo(P) ==
    {S \in DOMAIN secondary_context.entity_mappings :
        secondary_context.entity_mappings[S] = P}

\* C6: the final children of a primary entity P are its primary children
\* united with the mapped children of the secondary entities matched to P,
\* restricted to the ids of the result; no primary child that is still an
\* entity of the result is removed or replaced.
C6_ChildrenUnion ==
    Returned =>
        \A P \in DOMAIN primary_graph.entities \cap DOMAIN merged.entities :
            LET own == ToSet(primary_graph.entities[P].children)
                theirs == UNION {{Mapped(c) : c \in ToSet(secondary_graph.entities[S].children)} :
                                    S \in MatchedTo(P)}
            IN /\ merged.entities[P].children
                    = (own \cup theirs) \cap DOMAIN merged.entities
               /\ own \cap DOMAIN merged.entities \subseteq merged.entities[P].children

\* C9: no two distinct transitions of the returned graph have the same
\* (source, target) pair, and the surviving transition carries the property
\* keys of every input transition with that pair.
C9_TransitionDedup ==
    Returned =>
        /\ \A t, u \in DOMAIN merged.transitions :
              (/\ merged.transitions[t].source = merged.transitions[u].source
               /\ merged.transitions[t].target = merged.transitions[u].target) => t = u
        /\ \A t \in DOMAIN merged.transitions :
              /\ \A u \in DOMAIN primary_graph.transitions :
                    (/\ primary_graph.transitions[u].source = merged.transitions[t].source
                     /\ primary_graph.transitions[u].target = merged.transitions[t].target)
                    => DOMAIN primary_graph.transitions[u].properties
                          \subseteq DOMAIN merged.transitions[t].properties
              /\ \A u \in DOMAIN secondary_graph.transitions :
                    (/\ Mapped(secondary_graph.transitions[u].source) = merged.transitions[t].source
                     /\ Mapped(secondary_graph.transitions[u].target) = merged.transitions[t].target)
                    => DOMAIN secondary_graph.transitions[u].properties
                          \subseteq DOMAIN merged.transitions[t].properties

\* C7: for every matched pair (P, S) the keys of the merged entity's
\* properties are the keys of P's united with the keys of S's, and a key on
\* one side only keeps that side's value.
C7_PropertyKeyUnion ==
    Returned =>
        \A S \in DOMAIN secondary_context.entity_mappings :
            LET P == secondary_context.entity_mappings[S]
                pp == primary_graph.entities[P].properties
                sp == secondary_graph.entities[S].properties
                mp == merged.entities[P].properties
            IN /\ DOMAIN mp = DOMAIN pp \cup DOMAIN sp
               /\ \A k \in DOMAIN pp \ DOMAIN sp : mp[k] = pp[k]
               /\ \A k \in DOMAIN sp \ DOMAIN pp : mp[k] = sp[k]

\* the primary transitions registered under the signature of the secondary
\* transition u
SameSignature(u) ==
    {t \in DOMAIN primary_graph.transitions :
        get_transition_signature(primary_graph.transitions[t].source,
                                 primary_graph.transitions[t].target)
      = get_transition_signature(secondary_graph.transitions[u].source,
                                 secondary_graph.transitions[u].target)}

\* C8 as claimed: where a matched primary and secondary entity, or a
\* deduplicated primary and secondary transition, both define a key with
\* different values, the merged value is the primary's.
C8_PrimaryWins ==
    Returned =>
        /\ \A S \in DOMAIN secondary_context.entity_mappings :
              LET P == secondary_context.entity_mappings[S]
                  pp == primary_graph.entities[P].properties
                  sp == secondary_graph.entities[S].properties
              IN \A k \in DOMAIN pp \cap DOMAIN sp :
                    pp[k] # sp[k] =>
                        /\ k \in DOMAIN merged.entities[P].properties
                        /\ merged.entities[P].properties[k] = pp[k]
        /\ \A u \in DOMAIN secondary_graph.transitions : \A t \in SameSignature(u) :
              LET pp == primary_graph.transitions[t].properties
                  sp == secondary_graph.transitions[u].properties
              IN \A k \in DOMAIN pp \cap DOMAIN sp :
                    pp[k] # sp[k] => merged.transitions[t].properties[k] = pp[k]

\* the secondary entity, or transition, the last iteration worked on
JustProcessedEntity == secondary_graph.eorder[idx - 1]
JustProcessedTransition == secondary_graph.torder[idx - 1]

\* C8 as amended: the secondary wins.  Right after a secondary entity is
\* merged into its match, every key the secondary entity defines holds the
\* secondary's value in the merged entity; right after a secondary
\* transition is merged into, or stored as, the transition registered under
\* its signature, every key it defines holds its value there.
C8_SecondaryWins ==
    /\ (pc = "secondary" /\ idx > 1
        /\ JustProcessedEntity \in DOMAIN secondary_context.entity_mappings) =>
          LET S == JustProcessedEntity
              P == secondary_context.entity_mappings[S]
              sp == secondary_graph.entities[S].properties
          IN \A k \in DOMAIN sp :
                /\ k \in DOMAIN merged.entities[P].properties
                /\ merged.entities[P].properties[k] = sp[k]
    /\ (pc = "secondary_transitions" /\ idx > 1) =>
          LET u == secondary_graph.transitions[JustProcessedTransition]
              signature == get_transition_signature(u.source, u.target)
          IN signature \in DOMAIN transition_map =>
                \A k \in DOMAIN u.properties :
                    /\ k \in DOMAIN merged.transitions[transition_map[signature]].properties
                    /\ merged.transitions[transition_map[signature]].properties[k]
                          = u.properties[k]

\* a secondary entity was just merged into a primary entity that gives a
\* different value to one of its keys
C8_Witness ==
    /\ pc = "secondary" /\ idx > 1
    /\ JustProcessedEntity \in DOMAIN secondary_context.entity_mappings
    /\ LET S == JustProcessedEntity
           P == secondary_context.entity_mappings[S]
           pp == primary_graph.entities[P].properties
           sp == secondary_graph.entities[S].properties
       IN \E k \in DOMAIN pp \cap DOMAIN sp :
             pp[k] # sp[k] /\ merged.entities[P].properties[k] = sp[k]

\* the normalized name paths, of at most n + 1 names, on which the result m
\* reaches an entity from the entity id
RECURSIVE PathsFrom(_, _, _, _)
PathsFrom(m, id, prefix, n) ==
    IF id \notin DOMAIN m.entities THEN {}
    ELSE LET name == normalize_entity_name(m.entities[id])
             path == IF prefix = "" THEN name ELSE prefix \o "/" \o name
         IN {path} \cup
            (IF n = 0 THEN {}
             ELSE UNION {PathsFrom(m, c, path, n - 1) : c \in m.entities[id].children})

\* the name paths of the entities reachable from the roots of m; no path of
\* a result without a children cycle is longer than the two inputs together
ResultPaths(m) ==
    UNION {PathsFrom(m, r, "",
                     Cardinality(DOMAIN primary_graph.entities)
                     + Cardinality(DOMAIN secondary_graph.entities)) : r \in m.roots}

\* C11: for well-formed A and B with disjoint id sets, the entities
\* reachable from the roots of merge_graphs(A, B) and of merge_graphs(B, A)
\* have the same set of normalized root-to-entity name paths.
C11_Commutativity ==
    (/\ pc = "done" /\ comm_calls = 1
     /\ WellFormed(primary_graph) /\ WellFormed(secondary_graph)
     /\ DOMAIN primary_graph.entities \cap DOMAIN secondary_graph.entities = {}) =>
        ResultPaths(merged) = ResultPaths(comm_first)

\* the id a secondary root contributes: entity_mappings[r] if r was matched,
\* r itself otherwise
RootContribution(r) ==
    IF r \in DOMAIN secondary_context.entity_mappings
    THEN secondary_context.entity_mappings[r] ELSE r

\* C12: the returned roots are exactly the primary roots united with the
\* contribution of every secondary root whose contribution is a key of the
\* result's entities; a secondary root matched to a primary root adds no
\* root.
C12_RootSet ==
    Returned =>
        /\ merged.roots =
              ToSet(primary_graph.roots) \cup
              {RootContribution(r) : r \in {x \in ToSet(secondary_graph.roots) :
                                              RootContribution(x) \in DOMAIN merged.entities}}
        /\ \A r \in ToSet(secondary_graph.roots) :
              (/\ r \in DOMAIN secondary_context.entity_mappings
               /\ RootContribution(r) \in ToSet(primary_graph.roots)) =>
                  merged.roots \ ToSet(primary_graph.roots) \subseteq
                      {RootContribution(x) : x \in ToSet(secondary_graph.roots) \ {r}}

\* a return where one secondary root was matched to a primary root and
\* another, unmatched, became a root of the result
C12_Witness ==
    /\ Returned
    /\ \E r1, r2 \in ToSet(secondary_graph.roots) :
          /\ r1 \in DOMAIN secondary_context.entity_mappings
          /\ RootContribution(r1) \in ToSet(primary_graph.roots)
          /\ r2 \notin DOMAIN secondary_context.entity_mappings
          /\ r2 \notin ToSet(primary_graph.roots)
          /\ r2 \in merged.roots

\* C16: a transition of either input whose source or target is empty or
\* None is skipped: the call does not raise because of it, and the returned
\* graph has no transition whose source or target is empty or None.
C16_MissingEndpointsSkipped ==
    /\ pc = "raised" => primary_context.raised \/ secondary_context.raised
    /\ Returned =>
          \A t \in DOMAIN merged.transitions :
              /\ Truthy(merged.transitions[t].source)
              /\ Truthy(merged.transitions[t].target)

\* merge_graphs is about to call find_matching_entity for the secondary
\* entity S
Calls(S) ==
    /\ pc = "secondary"
    /\ idx <= Len(secondary_graph.eorder)
    /\ S = secondary_graph.eorder[idx]
    /\ S \notin secondary_context.processed_entities
    /\ S \in DOMAIN secondary_context.entity_paths

\* that call returns from its second tier
SecondTierReturns(S) ==
    /\ Calls(S)
    /\ PathMatch(secondary_context.entity_paths[S]) = None
    /\ ParentMatch(secondary_context.entity_paths[S], secondary_graph.entities[S]) # None

\* that call returns from its third tier
ThirdTierReturns(S) ==
    /\ Calls(S)
    /\ PathMatch(secondary_context.entity_paths[S]) = None
    /\ ParentMatch(secondary_context.entity_paths[S], secondary_graph.entities[S]) = None
    /\ RootMatch(secondary_context.entity_paths[S], secondary_graph.entities[S]) # None

\* C17: whenever the second tier of find_matching_entity returns a primary
\* id for a secondary entity S, that primary entity has S's normalized name
\* and its parent in the primary index is the primary entity that S's parent
\* was mapped to in this merge.
C17_ParentScopedTier ==
    \A S \in DOMAIN secondary_graph.entities :
        SecondTierReturns(S) =>
            LET path == secondary_context.entity_paths[S]
                P == ParentMatch(path, secondary_graph.entities[S])
            IN /\ normalize_entity_name(primary_graph.entities[P])
                     = normalize_entity_name(secondary_graph.entities[S])
               /\ path.parent_id \in DOMAIN secondary_context.entity_mappings
               /\ primary_context.entity_paths[P].parent_id
                     = secondary_context.entity_mappings[path.parent_id]

\* C18: whenever the third tier of find_matching_entity returns a primary id
\* for a secondary entity S, that primary entity has S's normalized name and
\* S's level, and its root is the primary root that S's root was mapped to
\* (for an S that is a root itself: it is a primary root).
C18_RootScopedTier ==
    \A S \in DOMAIN secondary_graph.entities :
        ThirdTierReturns(S) =>
            LET path == secondary_context.entity_paths[S]
                P == RootMatch(path, secondary_graph.entities[S])
                primary_path == primary_context.entity_paths[P]
            IN /\ primary_path.name = normalize_entity_name(secondary_graph.entities[S])
               /\ primary_path.level = path.level
               /\ IF path.root_id = S THEN primary_path.root_id = P
                  ELSE /\ path.root_id \in DOMAIN secondary_context.entity_mappings
                       /\ primary_path.root_id
                             = secondary_context.entity_mappings[path.root_id]

----------------------------------------------------------------------------
(* Claims about dict_merger.py *)

\* C5: generate_unique_id(original_id, existing_ids) returns, and returns an
\* id that is not taken: original_id itself when that is not taken, and
\* otherwise original_id + '_' + N for the smallest N >= 1 whose string is
\* not taken (so N is at most the number of taken ids).
C5_FirstFreeSuffix ==
    gen_original # None =>
        /\ ENABLED GenerateUniqueId \/ gen_result # None
        /\ gen_result # None =>
              /\ gen_result \notin gen_existing
              /\ gen_original \notin gen_existing => gen_result = gen_original
              /\ gen_original \in gen_existing =>
                    \E N \in 1..Cardinality(gen_existing) :
                        /\ gen_result = gen_original \o "_" \o ToString(N)
                        /\ \A M \in 1..(N - 1) :
                              (gen_original \o "_" \o ToString(M)) \in gen_existing

\* a call that had to skip the taken suffixes 1 and 2
C5_Witness ==
    /\ gen_original = "a"
    /\ {"a", "a_1", "a_2"} \subseteq gen_existing
    /\ gen_result = "a_3"

\* the id under which an entity of graph2 is to be found in the result
ResultId2(id) ==
    IF id \in DOMAIN dm_graph1.entities
    THEN generate_unique_id(id, DOMAIN dm_graph1.entities)
    ELSE id

\* the id under which a transition of graph2 is found in the result
ResultTransitionId2(t) == generate_unique_id(t, DOMAIN dm_graph1.transitions)

\* C4: after the first call of merge_graphs(graph1, graph2), for every id X
\* that is a key of both graphs and names different entities, the result
\* holds graph1's entity under X and graph2's under the first free suffix of
\* X, and every child reference, root and transition endpoint of graph2 that
\* named X names the suffixed id in the result.
C4_CollisionPreserved ==
    dm_pc = "returned" =>
        \A X \in DOMAIN dm_graph1.entities \cap DOMAIN dm_graph2.entities :
            dm_graph1.entities[X].name # dm_graph2.entities[X].name =>
                LET X1 == ResultId2(X)
                    result == dm_merged
                IN /\ X \in DOMAIN result.entities
                   /\ result.entities[X].name = dm_graph1.entities[X].name
                   /\ X1 # X
                   /\ X1 \in DOMAIN result.entities
                   /\ result.entities[X1].name = dm_graph2.entities[X].name
                   /\ \A p \in DOMAIN dm_graph2.entities :
                         X \in ToSet(dm_graph2.entities[p].children) =>
                             /\ ResultId2(p) \in DOMAIN result.entities
                             /\ X1 \in ToSet(result.entities[ResultId2(p)].children)
                   /\ X \in ToSet(dm_graph2.roots) => X1 \in ToSet(result.roots)
                   /\ \A t \in DOMAIN dm_graph2.transitions :
                         LET rt == result.transitions[ResultTransitionId2(t)]
                         IN /\ dm_graph2.transitions[t].source = X => rt.source = X1
                            /\ dm_graph2.transitions[t].target = X => rt.target = X1

\* the graph merge_graphs(graph1, graph2) returns on the fresh module state
FreshResult(graph1, graph2) ==
    dm_process_graph(dm_process_graph(DMFresh, graph1), graph2).merged

\* C15: the graph a merge_graphs call returns depends only on the call's two
\* arguments: the second call of a process returns what the first call of a
\* fresh process returns for the same arguments (so the same arguments give
\* equal graphs, and nothing that comes only from the earlier arguments is
\* in it).
C15_NoRetainedState ==
    (dm_pc = "returned" /\ dm_calls = 2) =>
        dm_merged = FreshResult(dm_graph1, dm_graph2)

----------------------------------------------------------------------------
(* Claims about LevelOptimizedMerger.merge_graphs of                        *)
(* dict_merger_optimized_v2.py                                              *)

\* C3: when a call of merge_graphs has returned or raised, the primary and
\* the secondary graph (entities with their keys, children lists and
\* properties maps, transitions, roots) are equal to what they were when
\* the call began.
C3_InputsUnchanged ==
    v2_pc \in {"done", "raised"} =>
        /\ Deref(v2_primary, v2_heap) = v2_primary0
        /\ Deref(v2_secondary, v2_heap) = v2_secondary0

\* an entities value in which some entity dict holds a children value that
\* is no list or a properties value that is no dict
MistypedField(entities) ==
    \E id \in DOMAIN entities.value :
        LET entity == entities.value[id]
        IN /\ isinstance(entity, "dict")
           /\ \/ /\ "children" \in DOMAIN entity.value
                 /\ ~isinstance(entity.value.children, "list")
              \/ /\ "properties" \in DOMAIN entity.value
                 /\ ~isinstance(entity.value.properties, "dict")

\* the graphs the claim says are rejected
Rejectable(graph) ==
    /\ isinstance(graph, "dict")
    /\ \/ {"entities", "transitions", "roots"} \ DOMAIN graph.value # {}
       \/ ~isinstance(graph.value.entities, "dict")
       \/ ~isinstance(graph.value.transitions, "dict")
       \/ ~isinstance(graph.value.roots, "list")
       \/ MistypedField(graph.value.entities)

\* C13: validate_graph raises for every graph that lacks one of entities,
\* transitions, roots, or whose entities or transitions is no map, whose
\* roots is no list, or that has an entity whose children is no list or
\* whose properties is no map; in every graph it accepts, each entity
\* afterwards has a children list and a properties map.
C13_Validation ==
    /\ (val_outcome \in {"accepted", "raised"} /\ Rejectable(val_graph)) =>
          val_outcome = "raised"
    /\ val_outcome = "accepted" =>
          \A id \in DOMAIN val_graph.value.entities.value :
              LET entity == val_graph.value.entities.value[id].value
              IN /\ "children" \in DOMAIN entity
                 /\ isinstance(entity.children, "list")
                 /\ "properties" \in DOMAIN entity
                 /\ isinstance(entity.properties, "dict")

----------------------------------------------------------------------------
(* Claims about alt_dict_merger.py *)

\* C14: applying _validate_merged_graph twice to a graph yields the same
\* graph as applying it once.
C14_ValidatorIdempotent == alt_applied = 2 => alt_merged = alt_once

----------------------------------------------------------------------------
(* Claims about GraphMerger of dict_merger_optimized_v3_runtime_reduced.py *)

\* the (entity_id, entity) pairs _find_matching_entity is about to be
\* called with
FindCalls ==
    IF rr_pc = "entities" /\ rr_idx < Len(rr_secondary.eorder)
    THEN {<<rr_secondary.eorder[rr_idx + 1],
            rr_secondary.entities[rr_secondary.eorder[rr_idx + 1]]>>}
    ELSE IF rr_pc = "raised"
    THEN UNION {{<<id, graph.entities[id]>> : id \in DOMAIN graph.entities} :
                    graph \in {rr_primary, rr_secondary}}
    ELSE {}

\* the call gets as far as the name-and-level lookup
ReachesNameAndLevel(entity_id) ==
    /\ entity_id \in DOMAIN rr_index.entity_info
    /\ joinable(rr_index.entity_info[entity_id].path)
    /\ join(rr_index.entity_info[entity_id].path) \notin DOMAIN rr_index.path_map

\* C19: when the name-and-level lookup of _find_matching_entity yields
\* candidates, one attributed to the root of the entity is returned if there
\* is one, and in every call the returned id is the same whatever order the
\* set of candidates is iterated in.
C19_TieBreakDeterministic ==
    \A call \in FindCalls :
        LET entity_id == call[1]
            results == _find_matching_entity(rr_index, entity_id, call[2])
            candidates == potential_matches(rr_index, entity_id, call[2])
        IN /\ Cardinality(results) = 1
           /\ ReachesNameAndLevel(entity_id)
              /\ Truthy(rr_index.entity_info[entity_id].root_id)
              /\ (\E c \in candidates :
                      rr_index.entity_info[c].root_id
                        = rr_index.entity_info[entity_id].root_id)
              => \A r \in results :
                      rr_index.entity_info[r].root_id
                        = rr_index.entity_info[entity_id].root_id

\* the name path _build_entity_info gives an entity of a graph indexed alone
NamePath(graph, id) ==
    _build_entity_info(graph, EmptyIndex, TRUE).index.entity_info[id].path

\* C20: in merge_graphs every id _find_matching_entity returns, None apart,
\* is the id of a primary entity, and at the return every secondary entity
\* whose name path is the name path of a primary entity with another id is
\* mapped to a primary entity of that name path and is not added as new.
C20_MatchesThroughPrimaryIndex ==
    /\ rr_idx > 0 /\ rr_match # None => rr_match \in DOMAIN rr_primary.entities
    /\ rr_pc = "returned" =>
        \A s \in DOMAIN rr_secondary.entities, p \in DOMAIN rr_primary.entities :
            p # s /\ NamePath(rr_secondary, s) = NamePath(rr_primary, p)
            => /\ s \in DOMAIN rr_mappings
               /\ rr_mappings[s] \in DOMAIN rr_primary.entities
               /\ NamePath(rr_primary, rr_mappings[s]) = NamePath(rr_secondary, s)
               /\ s \notin DOMAIN rr_primary.entities
                    => s \notin DOMAIN rr_merged.entities

----------------------------------------------------------------------------
(* Claims about the level index of dict_merger_optimized_v2.py *)

\* the levels whose cache holds the entity in its name_paths table, and in
\* its entities table
PathLevels(caches, id) ==
    {l \in 0..(MAX_DEPTH - 1) : id \in DOMAIN caches[l + 1].name_paths}

EntityLevels(caches, id) ==
    {l \in 0..(MAX_DEPTH - 1) :
        \E root \in DOMAIN caches[l + 1].entities : id \in caches[l + 1].entities[root]}

\* the fewest children steps from a root of the graph to the entity
Distance(graph, id) ==
    CHOOSE n \in 0..MAX_DEPTH :
        /\ id \in Reach(graph, n)
        /\ n > 0 => id \notin Reach(graph, n - 1)

\* the caches attribute the entity to one level, its distance from a root,
\* with a parent one level up that lists it and the name path below that
\* parent's
ShallowestWins(graph, caches, id) ==
    /\ PathLevels(caches, id) = {Distance(graph, id)}
    /\ EntityLevels(caches, id) = {Distance(graph, id)}
    /\ LET l == Distance(graph, id)
           name == get_entity_name(id, graph.entities)
       IN IF l = 0 THEN caches[1].name_paths[id] = name
          ELSE /\ id \in DOMAIN caches[l + 1].parents
               /\ LET parent == caches[l + 1].parents[id]
                  IN /\ parent \in DOMAIN caches[l].name_paths
                     /\ id \in ToSet(graph.entities[parent].children)
                     /\ caches[l + 1].name_paths[id]
                          = caches[l].name_paths[parent] \o "/" \o name

V2Indexed == v2_pc \in {"primary", "levels", "transitions", "done", "hang"}

\* C21: after build_level_indices every indexed entity is in the entities
\* and name_paths tables of exactly one level cache, the level of its least
\* distance from a root, with the parent and the name path of that discovery.
C21_ShallowestDiscoveryWins ==
    V2Indexed =>
        /\ \A id \in UNION {DOMAIN v2_primary_caches[l].name_paths : l \in 1..MAX_DEPTH} :
              ShallowestWins(v2_primary, v2_primary_caches, id)
        /\ \A id \in UNION {DOMAIN v2_secondary_caches[l].name_paths : l \in 1..MAX_DEPTH} :
              ShallowestWins(v2_secondary, v2_secondary_caches, id)

\* the state of lines 200-268 once the first n entities of a visiting order
\* of the current level have been visited
VisitedSoFar(order, n) ==
    v2_process_entities([merged |-> v2_merged, heap |-> v2_heap,
                         processed |-> v2_processed, mappings |-> v2_mappings],
                        v2_level, SubSeq(order, 1, n), 1)

\* C23: whenever merge_graphs matches or inserts a secondary entity at a
\* level k > 0, the parent the secondary index records for it at that level
\* is already in processed_entities, mapped in entity_mappings or an entity
\* of the result.
C23_ParentProcessedFirst ==
    v2_pc = "levels" /\ v2_level > 0 =>
        \A order \in LevelOrders(v2_secondary_caches[v2_level + 1], v2_secondary.roots, 1) :
        \A i \in DOMAIN order :
            LET before == VisitedSoFar(order, i - 1)
                after == VisitedSoFar(order, i)
                parent == Get(v2_secondary_caches[v2_level + 1].parents, order[i], None)
            IN order[i] \in after.processed \ before.processed
               => /\ parent \in before.processed
                  /\ \/ parent \in DOMAIN before.mappings
                     \/ parent \in DOMAIN before.merged.entities

----------------------------------------------------------------------------
(* Claims about GraphMerger.build_graph_context of                          *)
(* dict_merger_optimized_v3.py                                              *)

\* the step-by-step run ends with the context the recursive definition gives
BGCAgrees ==
    bgc_pc = "returned" => bgc_context = build_graph_context(bgc_graph)

\* C22: build_graph_context finishes after finitely many steps on every
\* finite graph, also when the children relation has a cycle that a root
\* reaches.
C22_IndexingTerminates == <>(bgc_pc = "returned")

----------------------------------------------------------------------------
(* Claims about the transition ids of GraphMerger.merge_graphs of           *)
(* dict_merger_optimized_v3.py                                              *)

\* the secondary transition merge_graphs is about to process goes to the
\* branch of lines 251-261 and its id is the id of a transition of the result
InsertsUnderTakenId ==
    /\ pc = "secondary_transitions"
    /\ idx <= Len(secondary_graph.torder)
    /\ LET trans_id == secondary_graph.torder[idx]
           trans_data == secondary_graph.transitions[trans_id]
       IN /\ get_transition_signature(trans_data.source, trans_data.target)
                \notin DOMAIN transition_map
          /\ Mapped(trans_data.source) \in DOMAIN merged.entities
          /\ Mapped(trans_data.target) \in DOMAIN merged.entities
          /\ trans_id \in DOMAIN merged.transitions

\* C24: inserting a secondary transition whose id is taken in the result
\* terminates: the while loop of lines 253-254 is left, with an id of the
\* form id_N that no transition of the result has.
C24_CollisionFreeId ==
    /\ pc # "hang"
    /\ InsertsUnderTakenId =>
          new_transition_id(secondary_graph.torder[idx], DOMAIN merged.transitions)
              \notin DOMAIN merged.transitions

----------------------------------------------------------------------------
(* Claims about the shape of the graph GraphMerger.merge_graphs of          *)
(* dict_merger_optimized_v3.py returns                                      *)

\* the ids reached from id in one to n steps along the children of the result
RECURSIVE Below(_, _)
Below(id, n) ==
    LET children == IF id \in DOMAIN merged.entities
                    THEN merged.entities[id].children ELSE {}
    IN IF n = 1 THEN children
       ELSE LET near == Below(id, n - 1)
            IN near \cup UNION {IF c \in DOMAIN merged.entities
                                THEN merged.entities[c].children ELSE {} : c \in near}

\* an entity of the result is below itself
OnCycle(id) == id \in Below(id, Cardinality(DOMAIN merged.entities))

\* C25: for well-formed inputs whose children relations are forests, the
\* children relation of the returned graph has no cycle.
C25_AcyclicOutput ==
    Returned => \A id \in DOMAIN merged.entities : ~OnCycle(id)

\* C26: at the return of merge_graphs the ID map is injective: no two
\* secondary entities are mapped to the same primary entity.
C26_MappingInjective ==
    Returned =>
        \A s1, s2 \in DOMAIN secondary_context.entity_mappings :
            secondary_context.entity_mappings[s1] = secondary_context.entity_mappings[s2]
            => s1 = s2

\* the valid entries of a list of ids
ValidIds(list, entities) == SelectSeq(list, LAMBDA id : id \in DOMAIN entities)

\* a graph without dangling child, transition endpoint or root
NoDangling(graph) ==
    /\ \A id \in DOMAIN graph.entities :
          ToSet(graph.entities[id].children) \subseteq DOMAIN graph.entities
    /\ \A t \in DOMAIN graph.transitions :
          /\ graph.transitions[t].source \in DOMAIN graph.entities
          /\ graph.transitions[t].target \in DOMAIN graph.entities
    /\ ToSet(graph.roots) \subseteq DOMAIN graph.entities

\* every valid child, transition and root of the graph before is in the
\* graph after
ValidKept(before, after) ==
    /\ DOMAIN after.entities = DOMAIN before.entities
    /\ \A id \in DOMAIN before.entities :
          ValidIds(after.entities[id].children, before.entities)
              = ValidIds(before.entities[id].children, before.entities)
    /\ \A t \in DOMAIN before.transitions :
          /\ before.transitions[t].source \in DOMAIN before.entities
          /\ before.transitions[t].target \in DOMAIN before.entities
          => /\ t \in DOMAIN after.transitions
             /\ after.transitions[t] = before.transitions[t]
    /\ ValidIds(after.roots, before.entities) = ValidIds(before.roots, before.entities)

\* C27: a single call of _validate_merged_graph leaves no dangling child,
\* transition endpoint or root, and keeps every entry that was valid.
C27_OnePassIsEnough ==
    [][alt_applied = 0 => NoDangling(alt_merged') /\ ValidKept(alt_merged, alt_merged')]_vars

\* C28: every entity of the primary graph is an entity of the returned graph
\* under its id, with the primary entity's name and all of its property keys.
C28_PrimaryEntitiesSurvive ==
    Returned =>
        \A id \in DOMAIN primary_graph.entities :
            /\ id \in DOMAIN merged.entities
            /\ merged.entities[id].name = primary_graph.entities[id].name
            /\ DOMAIN primary_graph.entities[id].properties
                  \subseteq DOMAIN merged.entities[id].properties

\* no root of the graph is in the children list of an entity of the graph
NoRootIsChild(graph) ==
    \A id \in DOMAIN graph.entities :
        ToSet(graph.roots) \cap ToSet(graph.entities[id].children) = {}

\* C30: when no root of either input is listed as a child, no root of the
\* returned graph is in the children of an entity of the returned graph.
C30_RootsParentless ==
    Returned /\ NoRootIsChild(primary_graph) /\ NoRootIsChild(secondary_graph) =>
        \A id \in DOMAIN merged.entities :
            merged.roots \cap merged.entities[id].children = {}

----------------------------------------------------------------------------
(* Claims about merge_graph_dicts of dict_merger_v2.py *)

\* C29: a secondary entity that has a path from a secondary root and whose
\* id is no primary id is a key of the returned graph, unless the primary
\* graph has an entity with the same path, the last position included.
C29_NoSecondaryLost ==
    gd_pc = "returned" =>
        \A id \in DOMAIN gd_secondary_paths.of \ DOMAIN gd_primary.entities :
            \/ id \in DOMAIN gd_merged.entities
            \/ \E primary_id \in DOMAIN gd_primary_paths.of :
                  gd_primary_paths.of[primary_id] = gd_secondary_paths.of[id]

====
